---- MODULE Spec2Model ----
(***************************************************************************)
(* Model of the CFD-only tick pipeline of the commodity price oracle       *)
(* (src/src/oracle.rs), with the consensus builder                         *)
(* (src/src/index/cfd_consensus.rs), the EMA reference and funding engine  *)
(* (src/src/funding.rs), the configuration (src/src/config.rs), the        *)
(* publisher contract (src/src/publishing.rs) and the daemon's wiring      *)
(* (src/src/bin/oracle_daemon.rs).                                         *)
(*                                                                         *)
(* Numbers.  An f64 is modelled as an exact rational sg * n / d whose      *)
(* numerator and denominator are unbounded naturals (sequences of base     *)
(* 10000 limbs, least significant first), extended with NaN (0/0) and the  *)
(* infinities (n/0).  Arithmetic is exact: IEEE rounding and overflow to   *)
(* infinity are not modelled.  NaN behaves as in IEEE 754: it propagates   *)
(* through arithmetic and every ordered comparison with it is false.       *)
(* f64::exp is the one function that is approximated (see ExpNeg).         *)
(***************************************************************************)
EXTENDS Integers, Sequences, FiniteSets, TLC

(***************************************************************************)
(* Unbounded naturals                                                      *)
(***************************************************************************)
Base == 10000

MaxI(x, y) == IF x >= y THEN x ELSE y
MinI(x, y) == IF x <= y THEN x ELSE y
AbsI(x) == IF x < 0 THEN 0 - x ELSE x

Limb(a, i) == IF i <= Len(a) THEN a[i] ELSE 0

RECURSIVE BTrim(_)
BTrim(a) ==
    IF Len(a) = 0 THEN a
    ELSE IF a[Len(a)] = 0 THEN BTrim(SubSeq(a, 1, Len(a) - 1)) ELSE a

RECURSIVE BCarry(_, _, _)
BCarry(cols, i, c) ==
    IF i > Len(cols)
    THEN (IF c = 0 THEN <<>> ELSE <<c % Base>> \o BCarry(cols, i, c \div Base))
    ELSE LET s == cols[i] + c IN <<s % Base>> \o BCarry(cols, i + 1, s \div Base)

BFromInt(k) ==
    IF k = 0 THEN <<>>
    ELSE IF k < Base THEN <<k>>
    ELSE IF k < Base * Base THEN <<k % Base, k \div Base>>
    ELSE BCarry(<<k>>, 1, 0)

BAdd(a, b) ==
    BCarry([i \in 1..MaxI(Len(a), Len(b)) |-> Limb(a, i) + Limb(b, i)], 1, 0)

RECURSIVE BCmpAt(_, _, _)
BCmpAt(a, b, i) ==
    IF i = 0 THEN 0
    ELSE IF a[i] < b[i] THEN 0 - 1
    ELSE IF a[i] > b[i] THEN 1
    ELSE BCmpAt(a, b, i - 1)

BCmp(a, b) ==
    IF Len(a) < Len(b) THEN 0 - 1
    ELSE IF Len(a) > Len(b) THEN 1
    ELSE BCmpAt(a, b, Len(a))

RECURSIVE BBorrow(_, _, _, _)
BBorrow(a, b, i, br) ==
    IF i > Len(a) THEN <<>>
    ELSE LET s == a[i] - Limb(b, i) - br
         IN IF s < 0 THEN <<s + Base>> \o BBorrow(a, b, i + 1, 1)
                     ELSE <<s>> \o BBorrow(a, b, i + 1, 0)

\* a - b, for a >= b
BSub(a, b) == BTrim(BBorrow(a, b, 1, 0))

RECURSIVE ColSum(_, _, _, _)
ColSum(a, b, k, i) ==
    IF i > Len(a) \/ i > k THEN 0
    ELSE (IF k + 1 - i <= Len(b) THEN a[i] * b[k + 1 - i] ELSE 0)
         + ColSum(a, b, k, i + 1)

BMul(a, b) ==
    IF Len(a) = 0 \/ Len(b) = 0 THEN <<>>
    ELSE IF Len(a) = 1 /\ a[1] = 1 THEN b
    ELSE IF Len(b) = 1 /\ b[1] = 1 THEN a
    ELSE IF Len(a) = 1 /\ Len(b) = 1 THEN BFromInt(a[1] * b[1])
    ELSE BTrim(BCarry([k \in 1..(Len(a) + Len(b) - 1) |-> ColSum(a, b, k, 1)], 1, 0))

RECURSIVE BDivSmallAt(_, _, _, _)
\* long division from limb i down, with r carried in from the limbs above
BDivSmallAt(a, k, i, r) ==
    IF i = 0 THEN <<>>
    ELSE BDivSmallAt(a, k, i - 1, (r * Base + a[i]) % k)
         \o <<(r * Base + a[i]) \div k>>

\* quotient of a by a small k (k < Base)
BDivSmall(a, k) == BTrim(BDivSmallAt(a, k, Len(a), 0))

RECURSIVE GcdI(_, _)
GcdI(x, y) == IF y = 0 THEN x ELSE GcdI(y, x % y)

BToInt(a) == Limb(a, 1) + Base * Limb(a, 2)

RECURSIVE LimbSum(_, _)
LimbSum(a, i) == IF i > Len(a) THEN 0 ELSE a[i] + LimbSum(a, i + 1)

\* a > 0 is divisible by p, for p = 2, 5 (Base is a multiple of p) and
\* p = 3 (Base leaves remainder 1)
Divides(p, a) == IF p = 3 THEN LimbSum(a, 1) % 3 = 0 ELSE a[1] % p = 0

RECURSIVE Strip(_, _, _)
\* cancel the common powers of the prime p
Strip(n, d, p) ==
    IF Divides(p, n) /\ Divides(p, d)
    THEN Strip(BDivSmall(n, p), BDivSmall(d, p), p)
    ELSE <<n, d>>

StripPair(nd, p) == Strip(nd[1], nd[2], p)

\* x/y divided through by g = gcd(x, y)
Lowest(x, y, g) == <<BFromInt(x \div g), BFromInt(y \div g)>>

\* reduce n/d: to lowest terms when both fit two limbs, else by the common
\* powers of 2, 5 and 3 (a value need not be in lowest terms to be exact)
BReduce(n, d) ==
    IF Len(n) = 0 THEN <<n, <<1>>>>
    ELSE IF Len(n) <= 2 /\ Len(d) <= 2
    THEN Lowest(BToInt(n), BToInt(d), GcdI(BToInt(n), BToInt(d)))
    ELSE StripPair(StripPair(Strip(n, d, 2), 5), 3)

(***************************************************************************)
(* f64 values                                                              *)
(***************************************************************************)
NaN == [sg |-> 1, n |-> <<>>, d |-> <<>>]
PosInf == [sg |-> 1, n |-> <<1>>, d |-> <<>>]
NegInf == [sg |-> 0 - 1, n |-> <<1>>, d |-> <<>>]
Zero == [sg |-> 1, n |-> <<>>, d |-> <<1>>]

is_nan(x) == Len(x.d) = 0 /\ Len(x.n) = 0
is_finite(x) == Len(x.d) > 0

\* sg * infinity
Inf(sg) == [sg |-> sg, n |-> <<1>>, d |-> <<>>]

\* the value sg * nd[1] / nd[2]
Signed(sg, nd) == [sg |-> sg, n |-> nd[1], d |-> nd[2]]

\* the finite value sg * n / d in lowest terms (a finite f64 is below
\* 2^1024 in magnitude: overflow to infinity is not modelled)
MkF(sg, n, d) == Signed(IF Len(n) = 0 THEN 1 ELSE sg, BReduce(n, d))

\* the f64 k / m for integers k and m > 0
F(k, m) == MkF(IF k < 0 THEN 0 - 1 ELSE 1, BFromInt(AbsI(k)), BFromInt(m))

One == F(1, 1)

FNeg(x) == IF Len(x.n) = 0 THEN x ELSE [x EXCEPT !.sg = 0 - x.sg]
FAbs(x) == [x EXCEPT !.sg = 1]

\* sign of x - y for finite x, y
FCmp(x, y) ==
    IF x.sg # y.sg THEN (IF Len(x.n) = 0 /\ Len(y.n) = 0 THEN 0 ELSE x.sg)
    ELSE x.sg * BCmp(BMul(x.n, y.d), BMul(y.n, x.d))

\* sign of x - y for x, y finite or infinite
FOrd(x, y) ==
    IF is_finite(x) /\ is_finite(y) THEN FCmp(x, y)
    ELSE IF is_finite(y) THEN x.sg
    ELSE IF is_finite(x) THEN 0 - y.sg
    ELSE IF x.sg = y.sg THEN 0 ELSE x.sg

\* comparisons: false when an operand is NaN
FLt(x, y) == ~is_nan(x) /\ ~is_nan(y) /\ FOrd(x, y) < 0
FLe(x, y) == ~is_nan(x) /\ ~is_nan(y) /\ FOrd(x, y) <= 0
FGt(x, y) == FLt(y, x)
FGe(x, y) == FLe(y, x)

\* sx * a / d + sy * b / d
FSum(sx, a, sy, b, d) ==
    MkF(IF sx = sy \/ BCmp(a, b) >= 0 THEN sx ELSE sy,
        IF sx = sy THEN BAdd(a, b)
        ELSE IF BCmp(a, b) >= 0 THEN BSub(a, b) ELSE BSub(b, a),
        d)

\* x + y: inf + (-inf) is NaN
FAdd(x, y) ==
    IF is_nan(x) \/ is_nan(y) THEN NaN
    ELSE IF ~is_finite(x)
    THEN (IF ~is_finite(y) /\ x.sg # y.sg THEN NaN ELSE x)
    ELSE IF ~is_finite(y) THEN y
    ELSE FSum(x.sg, BMul(x.n, y.d), y.sg, BMul(y.n, x.d), BMul(x.d, y.d))

FSub(x, y) == FAdd(x, FNeg(y))

\* x * y: 0 * inf is NaN
FMul(x, y) ==
    IF is_nan(x) \/ is_nan(y) THEN NaN
    ELSE IF ~is_finite(x) \/ ~is_finite(y)
    THEN (IF Len(x.n) = 0 \/ Len(y.n) = 0 THEN NaN ELSE Inf(x.sg * y.sg))
    ELSE MkF(x.sg * y.sg, BMul(x.n, y.n), BMul(x.d, y.d))

\* x / y: inf / inf and 0 / 0 are NaN, x / inf is 0 and x / 0 infinite
\* (the sign of a zero is not kept)
FDiv(x, y) ==
    IF is_nan(x) \/ is_nan(y) THEN NaN
    ELSE IF ~is_finite(x)
    THEN (IF ~is_finite(y) THEN NaN ELSE Inf(x.sg * y.sg))
    ELSE IF ~is_finite(y) THEN Zero
    ELSE IF Len(y.n) = 0
    THEN (IF Len(x.n) = 0 THEN NaN ELSE Inf(x.sg))
    ELSE MkF(x.sg * y.sg, BMul(x.n, y.d), BMul(x.d, y.n))

\* f64::max and f64::min return the other operand when one is NaN
FMax(x, y) == IF is_nan(x) THEN y ELSE IF is_nan(y) THEN x
              ELSE IF FLt(x, y) THEN y ELSE x
FMin(x, y) == IF is_nan(x) THEN y ELSE IF is_nan(y) THEN x
              ELSE IF FLt(y, x) THEN y ELSE x

\* f64::clamp for lo <= hi: NaN stays NaN
FClamp(x, lo, hi) == IF FLt(x, lo) THEN lo ELSE IF FGt(x, hi) THEN hi ELSE x

(***************************************************************************)
(* Option<T>: None is the empty sequence, Some(x) the one-element sequence *)
(***************************************************************************)
None == <<>>
Some(x) == <<x>>
is_some(o) == Len(o) = 1
unwrap(o) == o[1]

(***************************************************************************)
(* Configuration (src/src/config.rs).  A configuration is frozen at        *)
(* start-up; no field is validated.                                        *)
(***************************************************************************)
\* the serde defaults of a TOML file that sets mode_cfd_only
SerdeConfig ==
    [symbol |-> "LH", expo |-> 0 - 8, poll_ms |-> 2000,
     mode_cfd_only |-> TRUE,
     cfd_max_staleness_ms |-> 90000, funding_cap |-> F(4, 1000),
     cfd_min_fresh |-> 2, cfd_tau_ms |-> 8000, cfd_mad_k |-> F(7, 2),
     cfd_dispersion_bps_max |-> 35, hours_guard |-> "vendor",
     max_step_per_tick |-> F(1, 100)]

\* OracleConfig::default(), used when the file is absent or malformed
DefaultConfig ==
    [symbol |-> "", expo |-> 0, poll_ms |-> 0, mode_cfd_only |-> FALSE,
     cfd_max_staleness_ms |-> 0, funding_cap |-> Zero,
     cfd_min_fresh |-> 2, cfd_tau_ms |-> 20000, cfd_mad_k |-> F(6, 1),
     cfd_dispersion_bps_max |-> 80, hours_guard |-> "cme",
     max_step_per_tick |-> F(2, 100)]

\* the configurations explored: the two above and files that override keys
Configs ==
    { SerdeConfig,
      DefaultConfig,
      [SerdeConfig EXCEPT !.cfd_min_fresh = 1, !.max_step_per_tick = F(1, 4),
                          !.hours_guard = "off"],
      [SerdeConfig EXCEPT !.cfd_min_fresh = 0, !.max_step_per_tick = Zero,
                          !.hours_guard = "cme"],
      [SerdeConfig EXCEPT !.cfd_min_fresh = 1, !.cfd_tau_ms = 0],
      [SerdeConfig EXCEPT !.cfd_min_fresh = 1, !.cfd_mad_k = F(0 - 1, 1),
                          !.hours_guard = "closed"] }

(***************************************************************************)
(* Consensus builder (src/src/index/cfd_consensus.rs)                      *)
(***************************************************************************)
\* the f64 literals of the builder
MadScale == F(14826, 10000)
MadFloor == F(1, 1000000000)
DevCap == F(10, 1)
DevDamp == F(15, 100)
ExpUnderflow == F(745, 1)

RECURSIVE Pow2(_)
Pow2(k) == IF k = 0 THEN 1 ELSE 2 * Pow2(k - 1)

RECURSIVE ExpSteps(_, _)
\* floor(x * 13/9), counted up from k and capped at 20
ExpSteps(x, k) ==
    IF k >= 20 \/ FLt(x, F(9 * (k + 1), 13)) THEN k ELSE ExpSteps(x, k + 1)

\* f64::exp(-x) for x >= 0, approximated from below by a power of two,
\* 2^-floor(x * log2 e) with log2 e taken as 13/9: it is 1 at 0, positive
\* and non-increasing, and 0 past the point where f64::exp underflows.
ExpNeg(x) ==
    IF is_nan(x) THEN NaN
    ELSE IF FGt(x, ExpUnderflow) THEN Zero
    ELSE F(1, Pow2(ExpSteps(x, 0)))

\* exp(-age / tau_ms): with tau_ms = 0 the quotient is -inf (weight 0) for
\* age > 0 and NaN for age = 0
weight(age, tau_ms) ==
    IF tau_ms = 0 THEN (IF age = 0 THEN NaN ELSE Zero)
    ELSE ExpNeg(F(age, tau_ms))

RECURSIVE Insert(_, _)
Insert(x, s) ==
    IF Len(s) = 0 THEN <<x>>
    ELSE IF FLt(x, Head(s)) THEN <<x>> \o s
    ELSE <<Head(s)>> \o Insert(x, Tail(s))

RECURSIVE Sort(_)
Sort(s) == IF Len(s) = 0 THEN s ELSE Insert(Head(s), Sort(Tail(s)))

\* Mid taking the mean of the two middle elements of an even number
Mid_mean(sorted) ==
    IF Len(sorted) % 2 = 1 THEN sorted[(Len(sorted) \div 2) + 1]
    ELSE FDiv(FAdd(sorted[Len(sorted) \div 2],
                   sorted[(Len(sorted) \div 2) + 1]),
              F(2, 1))

\* sorted[len / 2] (0-based in the source)
Mid(sorted) == sorted[(Len(sorted) \div 2) + 1]

median(prices) == Mid(Sort(prices))

\* mad flooring the median deviation without scaling it
mad_unscaled(values, med) ==
    FMax(Mid(Sort([i \in 1..Len(values) |-> FAbs(FSub(values[i], med))])),
         MadFloor)

mad(values, med) ==
    FMul(MadScale,
         FMax(Mid(Sort([i \in 1..Len(values) |->
                           FAbs(FSub(values[i], med))])),
              MadFloor))

RECURSIVE SumSeq(_)
SumSeq(s) == IF Len(s) = 0 THEN Zero ELSE FAdd(Head(s), SumSeq(Tail(s)))

NoData == [ok |-> FALSE]

\* filter_kept rejecting no quote
filter_kept_all(quotes, med, band) == quotes

RECURSIVE filter_kept_strict(_, _, _)
\* filter_kept keeping the quotes strictly inside the band only
filter_kept_strict(quotes, med, band) ==
    IF Len(quotes) = 0 THEN <<>>
    ELSE (IF FLt(FAbs(FSub(Head(quotes).price, med)), band)
          THEN <<Head(quotes)>> ELSE <<>>)
         \o filter_kept_strict(Tail(quotes), med, band)

RECURSIVE filter_kept(_, _, _)
\* build, outlier filter: the quotes within band of the median, in order
filter_kept(quotes, med, band) ==
    IF Len(quotes) = 0 THEN <<>>
    ELSE (IF FLe(FAbs(FSub(Head(quotes).price, med)), band)
          THEN <<Head(quotes)>> ELSE <<>>)
         \o filter_kept(Tail(quotes), med, band)

\* build, the weight w2 of a kept quote: freshness, damped by the distance
\* from the median
quote_weight(q, now, tau_ms, med, md) ==
    FMul(weight(AbsI(now - q.ts_ms), tau_ms),
         ExpNeg(FMul(DevDamp,
                     FMin(FDiv(FAbs(FSub(q.price, med)), FAdd(md, MadFloor)),
                          DevCap))))

RECURSIVE round_bits(_, _, _)
\* the largest integer k <= y, found bit by bit from acc up, or 2^31 - 1 if
\* that is smaller
round_bits(y, acc, bit) ==
    IF bit = 0 THEN acc
    ELSE IF FGe(y, F(acc + bit, 1))
    THEN round_bits(y, acc + bit, bit \div 2)
    ELSE round_bits(y, acc, bit \div 2)

\* x.round() as u32 for x >= 0: NaN gives 0, and a value too large
\* saturates (at 2^31 - 1, the largest integer here, where u32 has
\* 2^32 - 1); a quotient of two numbers below 10^8 is rounded directly
round_u32(x) ==
    IF is_nan(x) THEN 0
    ELSE IF ~is_finite(x) THEN 2147483647
    ELSE IF Len(x.n) <= 2 /\ Len(x.d) <= 2
    THEN (2 * BToInt(x.n) + BToInt(x.d)) \div (2 * BToInt(x.d))
    ELSE round_bits(FAdd(x, F(1, 2)), 0, Pow2(30))

\* build, spread_bps: |(maxp - minp) / med| * 10000, rounded, of the kept
\* prices in ascending order
spread_bps(sorted, med) ==
    round_u32(FMul(FAbs(FDiv(FSub(sorted[Len(sorted)], sorted[1]), med)),
                   F(10000, 1)))

\* build_tick stamping the consensus tick with a quote's timestamp instead
\* of the wall clock
build_tick_quote_ts(builder, n_fresh, kept, spread, num, den, now) ==
    IF FLe(den, Zero) THEN NoData
    ELSE [ok |-> TRUE,
          tick |-> [symbol |-> builder.symbol, price |-> FDiv(num, den),
                    expo |-> builder.expo, ts_ms |-> kept[1].ts_ms,
                    source |-> "cfd-consensus", window_sec |-> 0],
          stats |-> [n_fresh |-> n_fresh, n_used |-> Len(kept),
                     n_dropped |-> n_fresh - Len(kept),
                     spread_bps |-> spread]]

\* build, from `if den <= 0.0` on: the fused tick and its statistics
build_tick(builder, n_fresh, kept, spread, num, den, now) ==
    IF FLe(den, Zero) THEN NoData
    ELSE [ok |-> TRUE,
          tick |-> [symbol |-> builder.symbol, price |-> FDiv(num, den),
                    expo |-> builder.expo, ts_ms |-> now,
                    source |-> "cfd-consensus", window_sec |-> 0],
          stats |-> [n_fresh |-> n_fresh, n_used |-> Len(kept),
                     n_dropped |-> n_fresh - Len(kept),
                     spread_bps |-> spread]]

\* build, the weighted sums num and den over the kept quotes with weights ws
build_sums(builder, n_fresh, kept, spread, ws, now) ==
    build_tick(builder, n_fresh, kept, spread,
               SumSeq([i \in 1..Len(kept) |-> FMul(ws[i], kept[i].price)]),
               SumSeq(ws), now)

\* build, from `if kept.is_empty()` on
build_kept(builder, n_fresh, kept, med, md, now) ==
    IF Len(kept) = 0 THEN NoData
    ELSE build_sums(builder, n_fresh, kept,
                    spread_bps(Sort([i \in 1..Len(kept) |-> kept[i].price]),
                               med),
                    [i \in 1..Len(kept) |->
                        quote_weight(kept[i], now, builder.tau_ms, med, md)],
                    now)

\* build, from the outlier filter on, given the median and the MAD
build_filtered(builder, quotes, med, md, now) ==
    build_kept(builder, Len(quotes),
               filter_kept(quotes, med, FMul(builder.mad_k, md)),
               med, md, now)

\* build, from `let mad` on, given the prices and their median
build_anchored(builder, quotes, ps, med, now) ==
    build_filtered(builder, quotes, med, mad(ps, med), now)

\* build, from `let mut ps` on
build_prices(builder, quotes, ps, now) ==
    build_anchored(builder, quotes, ps, median(ps), now)

\* CfdConsensus::build at wall-clock time now; builder = (symbol, expo,
\* tau_ms, mad_k)
build(builder, quotes, now) ==
    IF Len(quotes) = 0 THEN NoData
    ELSE build_prices(builder, quotes,
                      [i \in 1..Len(quotes) |-> quotes[i].price], now)

(***************************************************************************)
(* EMA reference and funding engine (src/src/funding.rs)                   *)
(***************************************************************************)
\* Ema::update leaving a value it holds as it is
Ema_update_holds(ema, x) ==
    IF ~is_some(ema.value) THEN [ema EXCEPT !.value = Some(x)] ELSE ema

\* Ema::update: the new Ema value (an Option<f64> that is always Some)
Ema_update(ema, x) ==
    IF ~is_some(ema.value) THEN [ema EXCEPT !.value = Some(x)]
    ELSE [ema EXCEPT !.value =
            Some(FAdd(FMul(ema.alpha, x),
                      FMul(FSub(One, ema.alpha), unwrap(ema.value))))]

\* compute passing the raw rate on, unclamped
compute_unclamped(engine, mark, index_ref) ==
    [symbol |-> mark.symbol \o "-PERP",
     rate |-> FMul(engine.kappa,
                   FDiv(FSub(mark.price, index_ref.price), index_ref.price)),
     interval_sec |-> engine.interval_sec,
     ts_ms |-> mark.ts_ms]

\* FundingEngine::compute
compute(engine, mark, index_ref) ==
    [symbol |-> mark.symbol \o "-PERP",
     rate |-> FClamp(FMul(engine.kappa,
                          FDiv(FSub(mark.price, index_ref.price),
                               index_ref.price)),
                     FNeg(engine.cap), engine.cap),
     interval_sec |-> engine.interval_sec,
     ts_ms |-> mark.ts_ms]

\* the engine the daemon constructs: FundingEngine::new(0.02, 0.005, 8h)
DaemonFundingEngine ==
    [kappa |-> F(2, 100), cap |-> F(5, 1000), interval_sec |-> 8 * 60 * 60]

(***************************************************************************)
(* Oracle (src/src/oracle.rs)                                              *)
(***************************************************************************)
\* the providers the daemon registers: vec![ninjas, owninja]
Cfds == <<"ninjas", "owninja">>

\* CircuitBreaker::new(0.07), as Oracle::new constructs it
NewCircuitBreaker ==
    [per_min_threshold |-> F(7, 100),
     last_anchor_price |-> None, last_anchor_ms |-> None]

\* Ema::new(0.005), as Oracle::new constructs it
NewEma == [alpha |-> F(5, 1000), value |-> None]

\* the breaker with its anchor moved to (px, ts_ms)
anchored(breaker, px, ts_ms) ==
    [breaker EXCEPT !.last_anchor_price = Some(px),
                    !.last_anchor_ms = Some(ts_ms)]

\* tripped_since comparing the move itself, not normalised to a minute
tripped_since_unnormalised(breaker, px, ts_ms, dt_ms) ==
    IF FGt(FAbs(FSub(FDiv(px, unwrap(breaker.last_anchor_price)), One)),
           breaker.per_min_threshold)
    THEN [result |-> TRUE, cb |-> breaker]
    ELSE IF dt_ms >= 10000
    THEN [result |-> FALSE, cb |-> anchored(breaker, px, ts_ms)]
    ELSE [result |-> FALSE, cb |-> breaker]

\* tripped_since rolling the anchor forward on every call that does not
\* trip
tripped_since_rolls_always(breaker, px, ts_ms, dt_ms) ==
    IF FGt(FMul(FAbs(FSub(FDiv(px, unwrap(breaker.last_anchor_price)), One)),
                F(60000, dt_ms)),
           breaker.per_min_threshold)
    THEN [result |-> TRUE, cb |-> breaker]
    ELSE [result |-> FALSE, cb |-> anchored(breaker, px, ts_ms)]

\* tripped_since never rolling the anchor forward
tripped_since_never_rolls(breaker, px, ts_ms, dt_ms) ==
    IF FGt(FMul(FAbs(FSub(FDiv(px, unwrap(breaker.last_anchor_price)), One)),
                F(60000, dt_ms)),
           breaker.per_min_threshold)
    THEN [result |-> TRUE, cb |-> breaker]
    ELSE [result |-> FALSE, cb |-> breaker]

\* CircuitBreaker::tripped with an anchor set, dt_ms after it: change is
\* |px / base_px - 1| * (60000 / dt_ms)
tripped_since(breaker, px, ts_ms, dt_ms) ==
    IF FGt(FMul(FAbs(FSub(FDiv(px, unwrap(breaker.last_anchor_price)), One)),
                F(60000, dt_ms)),
           breaker.per_min_threshold)
    THEN [result |-> TRUE, cb |-> breaker]
    ELSE IF dt_ms >= 10000
    THEN [result |-> FALSE, cb |-> anchored(breaker, px, ts_ms)]
    ELSE [result |-> FALSE, cb |-> breaker]

\* CircuitBreaker::tripped reporting a trip on the call that sets the first
\* anchor
tripped_first_trips(breaker, px, ts_ms) ==
    IF is_some(breaker.last_anchor_price) /\ is_some(breaker.last_anchor_ms)
    THEN tripped_since(breaker, px, ts_ms,
                       MaxI(ts_ms - unwrap(breaker.last_anchor_ms), 1))
    ELSE [result |-> TRUE, cb |-> anchored(breaker, px, ts_ms)]

\* CircuitBreaker::tripped: the returned flag and the breaker afterwards
tripped(breaker, px, ts_ms) ==
    IF is_some(breaker.last_anchor_price) /\ is_some(breaker.last_anchor_ms)
    THEN tripped_since(breaker, px, ts_ms,
                       MaxI(ts_ms - unwrap(breaker.last_anchor_ms), 1))
    ELSE [result |-> FALSE, cb |-> anchored(breaker, px, ts_ms)]

\* derived_staleness_ms using the configured cfd_max_staleness_ms when one
\* is set
derived_staleness_ms_configured(config) ==
    IF config.cfd_max_staleness_ms > 0 THEN config.cfd_max_staleness_ms
    ELSE MinI(MaxI(3 * config.cfd_tau_ms, 15000), 120000)

\* Oracle::derived_staleness_ms
derived_staleness_ms(config) ==
    MinI(MaxI(3 * config.cfd_tau_ms, 15000), 120000)

\* hours_ok holding the gate closed under "cme"
hours_ok_cme_closed(config) ==
    CASE config.hours_guard = "off" -> TRUE
      [] config.hours_guard = "vendor" -> TRUE
      [] config.hours_guard = "cme" -> FALSE
      [] OTHER -> TRUE

\* Oracle::hours_ok: every arm of the match is true
hours_ok(config) ==
    CASE config.hours_guard = "off" -> TRUE
      [] config.hours_guard = "vendor" -> TRUE
      [] OTHER -> TRUE

\* CfdSource of a provider name
cfd_source(pname) ==
    CASE pname \in {"ninjas", "api-ninjas"} -> "Ninjas"
      [] pname \in {"owninja", "openwebninja"} -> "Owninja"
      [] OTHER -> pname

RECURSIVE collect_from_keeps_future(_, _, _)
\* collect_from leaving timestamps in the far future as they are
collect_from_keeps_future(results, now, i) ==
    IF i > Len(results) THEN <<>>
    ELSE (IF results[i].ok /\ is_finite(results[i].price)
             /\ FGt(results[i].price, Zero)
          THEN <<[src |-> cfd_source(Cfds[i]), price |-> results[i].price,
                  ts_ms |-> results[i].ts_ms]>>
          ELSE <<>>)
         \o collect_from_keeps_future(results, now, i + 1)

RECURSIVE collect_from_stops_at_error(_, _, _)
\* collect_from giving up on the remaining providers at the first one that
\* returned an error
collect_from_stops_at_error(results, now, i) ==
    IF i > Len(results) \/ ~results[i].ok THEN <<>>
    ELSE (IF is_finite(results[i].price) /\ FGt(results[i].price, Zero)
          THEN <<[src |-> cfd_source(Cfds[i]), price |-> results[i].price,
                  ts_ms |-> IF results[i].ts_ms - now > 2000 THEN now
                            ELSE results[i].ts_ms]>>
          ELSE <<>>)
         \o collect_from_stops_at_error(results, now, i + 1)

RECURSIVE collect_from(_, _, _)
\* the loop over the joined results, from provider i on
collect_from(results, now, i) ==
    IF i > Len(results) THEN <<>>
    ELSE LET r == results[i]
             rest == collect_from(results, now, i + 1)
         IN IF r.ok /\ is_finite(r.price) /\ FGt(r.price, Zero)
            THEN <<[src |-> cfd_source(Cfds[i]), price |-> r.price,
                    ts_ms |-> IF r.ts_ms - now > 2000 THEN now ELSE r.ts_ms]>>
                 \o rest
            ELSE rest

\* Oracle::collect_cfd_quotes: results[i] is what provider i returned
collect_cfd_quotes(results, now) ==
    [quotes |-> collect_from(results, now, 1), attempted |-> Len(results)]

\* the 5 bps floor of the step clamp
StepFloor == F(5, 10000)

\* the mark with its price moved into [lo, hi]
clamp_price(mark, lo, hi) ==
    IF FLt(mark.price, lo) THEN [mark EXCEPT !.price = lo]
    ELSE IF FGt(mark.price, hi) THEN [mark EXCEPT !.price = hi]
    ELSE mark

\* the mark clamped to within step of the previous price
clamp_step(mark, prev_price, step) ==
    clamp_price(mark, FMul(prev_price, FSub(One, step)),
                FMul(prev_price, FAdd(One, step)))

\* tick_once, per-tick step clamp against the last good mark
step_clamp(config, lgm, mark) ==
    IF is_some(lgm)
    THEN clamp_step(mark, unwrap(lgm).price,
                    FMax(config.max_step_per_tick, StepFloor))
    ELSE mark

\* breaker_stage ending the tick without a publish when the breaker trips
breaker_stage_drops_frozen(lgm, mark, t) ==
    IF t.result
    THEN [publish |-> FALSE, mark |-> mark, lgm |-> lgm, cb |-> t.cb,
          label |-> IF is_some(lgm) THEN "circuit_breaker"
                    ELSE "cb_no_anchor"]
    ELSE [publish |-> TRUE, mark |-> mark, lgm |-> Some(mark),
          cb |-> t.cb, label |-> "ok"]

\* breaker_stage overwriting the last good mark on a tripped tick too
breaker_stage_overwrites(lgm, mark, t) ==
    IF t.result
    THEN IF is_some(lgm)
         THEN [publish |-> TRUE, mark |-> unwrap(lgm), lgm |-> Some(mark),
               cb |-> t.cb, label |-> "circuit_breaker"]
         ELSE [publish |-> FALSE, mark |-> mark, lgm |-> lgm,
               cb |-> t.cb, label |-> "cb_no_anchor"]
    ELSE [publish |-> TRUE, mark |-> mark, lgm |-> Some(mark),
          cb |-> t.cb, label |-> "ok"]

\* tick_once, circuit-breaker stage, t being what cb.tripped returned for
\* the mark: the mark to publish (if any), the last good mark and the
\* breaker afterwards
breaker_stage(lgm, mark, t) ==
    IF t.result
    THEN IF is_some(lgm)
         THEN [publish |-> TRUE, mark |-> unwrap(lgm), lgm |-> lgm,
               cb |-> t.cb, label |-> "circuit_breaker"]
         ELSE [publish |-> FALSE, mark |-> mark, lgm |-> lgm,
               cb |-> t.cb, label |-> "cb_no_anchor"]
    ELSE [publish |-> TRUE, mark |-> mark, lgm |-> Some(mark),
          cb |-> t.cb, label |-> "ok"]

\* the reference tick built from the EMA value
ref_tick(mark, ref_px) ==
    [symbol |-> mark.symbol, price |-> ref_px, expo |-> mark.expo,
     ts_ms |-> mark.ts_ms, source |-> "ref-ema", window_sec |-> 0]

\* publish_stage publishing the funding update before the mark
publish_stage_funding_first(ema2, engine, mark) ==
    [ema |-> ema2,
     calls |-> <<[op |-> "publish_funding",
                  fu |-> compute(engine, mark,
                                 ref_tick(mark, unwrap(ema2.value)))],
                 [op |-> "publish_index", tick |-> mark]>>]

\* tick_once, publish stage, ema2 being the EMA after its update with the
\* mark: the publisher calls in order and the EMA afterwards
publish_stage(ema2, engine, mark) ==
    [ema |-> ema2,
     calls |-> <<[op |-> "publish_index", tick |-> mark],
                 [op |-> "publish_funding",
                  fu |-> compute(engine, mark,
                                 ref_tick(mark, unwrap(ema2.value)))]>>]

\* drop_tick forgetting the last good mark
drop_tick_forgets(o, lbl) ==
    [oracle |-> [o EXCEPT !.last_good_mark = None], label |-> lbl,
     calls |-> <<>>]

\* tick_once, `inc("oracle_drops_total", lbl); return;`: the tick ends, with
\* nothing published and the oracle as it was
drop_tick(o, lbl) == [oracle |-> o, label |-> lbl, calls |-> <<>>]

\* tick_once, after the publish stage p
tick_published(o, b, p) ==
    [oracle |-> [o EXCEPT !.last_good_mark = b.lgm, !.cb = b.cb,
                          !.funding_ref_ema = p.ema],
     label |-> b.label, calls |-> p.calls]

\* tick_once, after the circuit-breaker stage b
tick_guarded(o, b) ==
    IF ~b.publish
    THEN drop_tick([o EXCEPT !.cb = b.cb], b.label)
    ELSE tick_published(o, b,
                        publish_stage(Ema_update(o.funding_ref_ema,
                                                 b.mark.price),
                                      o.funding_engine, b.mark))

\* tick_once, from the circuit breaker on, for the clamped mark
tick_clamped(o, mark) ==
    tick_guarded(o, breaker_stage(o.last_good_mark, mark,
                                  tripped(o.cb, mark.price, mark.ts_ms)))

\* the outcome r of a tick that had a consensus, with the flag of the
\* dispersion check: whether oracle_drops_total{wide_dispersion} was
\* incremented
flagged(r, wide) ==
    [oracle |-> r.oracle, label |-> r.label, calls |-> r.calls,
     wide_dispersion |-> wide]

\* tick_built dropping the tick when the spread is wider than the maximum
tick_built_drops_wide(o, built) ==
    IF ~built.ok THEN drop_tick(o, "no_consensus")
    ELSE IF built.stats.spread_bps > o.cfg.cfd_dispersion_bps_max
    THEN drop_tick(o, "wide_dispersion")
    ELSE flagged(tick_clamped(o, step_clamp(o.cfg, o.last_good_mark,
                                            built.tick)),
                 FALSE)

\* tick_once, from the match on the builder's result on: the dispersion
\* check counts a wide spread and the tick goes on to the guards
tick_built(o, built) ==
    IF ~built.ok THEN drop_tick(o, "no_consensus")
    ELSE flagged(tick_clamped(o, step_clamp(o.cfg, o.last_good_mark,
                                            built.tick)),
                 built.stats.spread_bps > o.cfg.cfd_dispersion_bps_max)

\* CfdConsensus::new(symbol, expo, cfd_tau_ms, cfd_mad_k)
new_builder(config) ==
    [symbol |-> config.symbol, expo |-> config.expo,
     tau_ms |-> config.cfd_tau_ms, mad_k |-> config.cfd_mad_k]

\* tick_once, from the count of the fresh quotes on
tick_fresh(o, inp, fresh) ==
    IF Len(fresh) < MaxI(o.cfg.cfd_min_fresh, 1)
    THEN drop_tick(o, "stale_or_insufficient")
    ELSE tick_built(o, build(new_builder(o.cfg), fresh, inp.now_build))

RECURSIVE filter_fresh(_, _, _)
\* tick_once, freshness filter: the quotes at most max_stale_ms from now
filter_fresh(quotes, now, max_stale_ms) ==
    IF Len(quotes) = 0 THEN <<>>
    ELSE (IF AbsI(now - Head(quotes).ts_ms) <= max_stale_ms
          THEN <<Head(quotes)>> ELSE <<>>)
         \o filter_fresh(Tail(quotes), now, max_stale_ms)

\* tick_once running the CFD path whatever mode_cfd_only is
tick_once_any_mode(o, inp) ==
    IF ~hours_ok(o.cfg) THEN drop_tick(o, "hours")
    ELSE tick_fresh(o, inp,
                    filter_fresh(inp.collected.quotes, inp.now_filter,
                                 derived_staleness_ms(o.cfg)))

\* Oracle::tick_once on the oracle o = (cfg, last_good_mark, funding_ref_ema,
\* funding_engine, cb).  inp carries what the tick reads from outside: what
\* collect_cfd_quotes returns when called, and the wall-clock readings of the
\* freshness filter and of the builder.  The result is the oracle afterwards,
\* the metric label of the path taken and the publisher calls made, in order.
tick_once(o, inp) ==
    IF ~hours_ok(o.cfg) THEN drop_tick(o, "hours")
    ELSE IF ~o.cfg.mode_cfd_only THEN drop_tick(o, "none")
    ELSE tick_fresh(o, inp,
                    filter_fresh(inp.collected.quotes, inp.now_filter,
                                 derived_staleness_ms(o.cfg)))

\* a publisher call with the result the publisher returned for it
with_result(c, index_ok, funding_ok) ==
    [f \in DOMAIN c \cup {"ok"} |->
        IF f # "ok" THEN c[f]
        ELSE IF c.op = "publish_index" THEN index_ok ELSE funding_ok]

\* publish_results returning from the tick when publish_index fails, before
\* the EMA is updated and the funding update published
publish_results_returns(o, r, index_ok, funding_ok) ==
    IF Len(r.calls) > 0 /\ ~index_ok
    THEN [oracle |-> [r.oracle EXCEPT !.funding_ref_ema = o.funding_ref_ema],
          label |-> r.label,
          calls |-> <<with_result(r.calls[1], index_ok, funding_ok)>>]
    ELSE [r EXCEPT !.calls =
            [i \in 1..Len(r.calls) |->
                with_result(r.calls[i], index_ok, funding_ok)]]

\* publish_results undoing the tick's state updates when a publish fails
publish_results_undoes(o, r, index_ok, funding_ok) ==
    [oracle |-> IF index_ok /\ funding_ok THEN r.oracle ELSE o,
     label |-> r.label,
     calls |-> [i \in 1..Len(r.calls) |->
                  with_result(r.calls[i], index_ok, funding_ok)]]

\* tick_once, the two `if let Err(e) = publish_..(..).await { warn }`
\* statements: a result the publisher returns is logged and nothing else.
\* r is the outcome of the tick as computed by tick_once; the outcome with
\* the publisher's results recorded next to the calls.
publish_results(o, r, index_ok, funding_ok) ==
    [r EXCEPT !.calls =
        [i \in 1..Len(r.calls) |->
            with_result(r.calls[i], index_ok, funding_ok)]]

(***************************************************************************)
(* The daemon: one oracle, ticked by the interval loop                     *)
(* (src/src/bin/oracle_daemon.rs)                                          *)
(***************************************************************************)
MaxTicks == 3

\* timings of a tick, as pairs <<gap, await>> (ms): gap is the wall-clock
\* time from the previous tick's build to this one's (the poll interval, or
\* a longer pause), await the time the tick spends awaiting its providers
Timings == {<<2000, 0>>, <<2000, 1000>>, <<300000, 0>>}

\* what provider i can return when asked at wall-clock time now: an error,
\* a tick with an invalid price, or a tick with a valid price whose
\* timestamp is current, aged, stale or in the future
ProviderResults(i, now) ==
    IF i = 1
    THEN {[ok |-> FALSE],
          [ok |-> TRUE, price |-> Zero, ts_ms |-> now],
          [ok |-> TRUE, price |-> NaN, ts_ms |-> now],
          [ok |-> TRUE, price |-> F(100, 1), ts_ms |-> now],
          [ok |-> TRUE, price |-> F(100, 1), ts_ms |-> now - 20000]}
    ELSE {[ok |-> FALSE],
          [ok |-> TRUE, price |-> F(0 - 100, 1), ts_ms |-> now],
          [ok |-> TRUE, price |-> PosInf, ts_ms |-> now],
          [ok |-> TRUE, price |-> F(100, 1), ts_ms |-> now - 30000],
          [ok |-> TRUE, price |-> F(150, 1), ts_ms |-> now + 3000]}

\* what the publisher can return for publish_index and publish_funding
PublisherResults == {<<TRUE, TRUE>>, <<FALSE, TRUE>>, <<TRUE, FALSE>>}

VARIABLES
    cfg,              \* Oracle.cfg
    last_good_mark,   \* Oracle.last_good_mark: Option<IndexTick>
    funding_ref_ema,  \* Oracle.funding_ref_ema: Ema
    cb,               \* Oracle.cb: CircuitBreaker
    clock,            \* wall clock (Utc::now) at the last tick's build
    ticks,            \* number of tick_once calls so far
    label,            \* metric label of the path the last tick took
    calls,            \* publisher calls of the last tick, in order
    last_published,   \* the mark most recently handed to publish_index
                      \* before the last tick
    collect_call,     \* the last call of collect_cfd_quotes made on its own
                      \* (Option): the providers' results, the clock reading
                      \* and what the call returned
    build_call,       \* the last calls of CfdConsensus::build made on their
                      \* own (Option): the builder, the quotes, a further
                      \* quote, the clock reading and what build returned
                      \* for the quotes without and with the further quote
    ema_feed,         \* an Ema fed a constant input on its own (Option):
                      \* the Ema, the input, the number of updates made
                      \* and the Ema's value before the last one
    daemon,           \* the daemon's loop followed in time: where the loop
                      \* is (pc), the time since the ticker was made (now),
                      \* the ticker's next deadline, the number of tick_once
                      \* calls in progress and of firings delivered
    latest_call,      \* a call of NinjasCfd::latest on its own (Option):
                      \* the symbol, the server's responses to the attempts,
                      \* the clock, the attempts made and what was returned
    stage_call,       \* the last call made on a stage of the tick on its
                      \* own (Option): the stage (op), what it was given
                      \* and what it returned
    cfd_index         \* a CfdIndex on its own (Option): the object (self),
                      \* the number of build calls made on it, and of the
                      \* last one the clock, the tick, the object before
                      \* and the result

\* the calls made on the components one at a time
probes ==
    <<collect_call, build_call, ema_feed, daemon, latest_call, stage_call,
      cfd_index>>

vars == <<cfg, last_good_mark, funding_ref_ema, cb, clock, ticks, label,
          calls, last_published, probes>>

\* the variables of the oracle and its daemon
oracle_vars == <<cfg, last_good_mark, funding_ref_ema, cb, clock, ticks,
                 label, calls, last_published>>

\* Oracle::new, as the daemon calls it
Init ==
    /\ cfg \in Configs
    /\ last_good_mark = None
    /\ funding_ref_ema = NewEma
    /\ cb = NewCircuitBreaker
    /\ clock = 0
    /\ ticks = 0
    /\ label = "new"
    /\ calls = <<>>
    /\ last_published = None
    /\ collect_call = None
    /\ build_call = None
    /\ ema_feed = None
    /\ daemon = [pc |-> "select", now |-> 0, deadline |-> 0, running |-> 0,
                 firings |-> 0]
    /\ latest_call = None
    /\ stage_call = None
    /\ cfd_index = None

Oracle ==
    [cfg |-> cfg, last_good_mark |-> last_good_mark,
     funding_ref_ema |-> funding_ref_ema,
     funding_engine |-> DaemonFundingEngine, cb |-> cb]

\* what collect_cfd_quotes can return when called at wall-clock time now:
\* one value per combination of provider results
Collected(now) ==
    { collect_cfd_quotes(<<r1, r2>>, now) :
          r1 \in ProviderResults(1, now), r2 \in ProviderResults(2, now) }

\* the outcomes of a tick that ran as r0, one per publisher result
publisher_outcomes(o, r0) ==
    { publish_results(o, r0, pr[1], pr[2]) : pr \in PublisherResults }

\* the outcomes tick_once can have when the wall clock reads now at the
\* filter and the build and the providers were awaited for await ms: one
\* per combination of provider results and publisher results
Outcomes(now, await) ==
    UNION { publisher_outcomes(Oracle,
                      tick_once(Oracle, [collected |-> c, now_filter |-> now,
                                         now_build |-> now])) :
            c \in Collected(now - await) }

\* the ticker fires and the loop awaits tick_once
Tick ==
    /\ ticks < MaxTicks
    /\ \E t \in Timings :
         \E r \in Outcomes(clock + t[1], t[2]) :
           /\ last_good_mark' = r.oracle.last_good_mark
           /\ funding_ref_ema' = r.oracle.funding_ref_ema
           /\ cb' = r.oracle.cb
           /\ label' = r.label
           /\ calls' = r.calls
           /\ last_published' =
                IF Len(calls) > 0 THEN Some(calls[1].tick)
                ELSE last_published
           /\ clock' = clock + t[1]
           /\ ticks' = ticks + 1
           /\ cfg' = cfg
           /\ UNCHANGED probes

Next == Tick

Spec == Init /\ [][Next]_vars

(***************************************************************************)
(* The daemon under a wall clock that can be set back: Utc::now() reads    *)
(* the system's real-time clock, which is not monotonic                    *)
(***************************************************************************)
\* timings of a tick when the clock can have been set back by a second
\* since the previous tick: 6 s after it (a slow tick), or 1 s before it
ClockSteps == {<<6000, 0>>, <<0 - 1000, 0>>}

\* the ticker fires and the loop awaits tick_once, the wall clock having
\* moved by any of ClockSteps
TickAnyClock ==
    /\ ticks < MaxTicks
    /\ \E t \in {c \in ClockSteps : clock + c[1] >= 0} :
         \E r \in Outcomes(clock + t[1], t[2]) :
           /\ last_good_mark' = r.oracle.last_good_mark
           /\ funding_ref_ema' = r.oracle.funding_ref_ema
           /\ cb' = r.oracle.cb
           /\ label' = r.label
           /\ calls' = r.calls
           /\ last_published' =
                IF Len(calls) > 0 THEN Some(calls[1].tick)
                ELSE last_published
           /\ clock' = clock + t[1]
           /\ ticks' = ticks + 1
           /\ cfg' = cfg
           /\ UNCHANGED probes

SpecClock == Init /\ [][TickAnyClock]_vars

(***************************************************************************)
(* The quote collector on its own (Oracle::collect_cfd_quotes)             *)
(***************************************************************************)
\* clock readings at the start of a collect
CollectNows == {5000, 60000}

\* prices a provider can report
QuotePrices ==
    {NaN, PosInf, Zero, F(0 - 100, 1), F(100, 1), F(150, 1)}

\* timestamps a provider can report, relative to the collector's clock
TsOffsets == {0 - 20000, 0, 2000, 2001, 3000}

\* what latest_tick can return to a collect that started at now
LatestResults(now) ==
    {[ok |-> FALSE]} \cup
    {[ok |-> TRUE, price |-> px, ts_ms |-> now + d] :
        px \in QuotePrices, d \in TsOffsets}

\* collect_cfd_quotes is called (once) with the clock at now and the
\* providers return r1 and r2
Collect ==
    /\ ~is_some(collect_call)
    /\ \E now \in CollectNows :
         \E r1 \in LatestResults(now), r2 \in LatestResults(now) :
           collect_call' =
               Some([results |-> <<r1, r2>>, now |-> now,
                     ret |-> collect_cfd_quotes(<<r1, r2>>, now)])
    /\ UNCHANGED <<oracle_vars, build_call, ema_feed, daemon, latest_call,
                   stage_call, cfd_index>>

SpecCollect == Init /\ [][Collect]_vars

(***************************************************************************)
(* The consensus builder on its own (CfdConsensus::build)                  *)
(***************************************************************************)
\* clock readings of a build
BuildNows == {60000}

\* the quotes a build can be given at now: valid prices, fresh timestamps
BuildQuotes(now) ==
    {[src |-> "Other", price |-> px, ts_ms |-> now - age] :
        px \in {F(100, 1), F(101, 1), F(150, 1)}, age \in {0, 20000}}

\* the quote sets a build can be given at now: up to three of the quotes
\* above, or two of them at the same price with a quote 4e-9 above it
BuildInputs(now) ==
    {<<q1>> : q1 \in BuildQuotes(now)} \cup
    {<<q1, q2>> : q1 \in BuildQuotes(now), q2 \in BuildQuotes(now)} \cup
    {<<q1, q2, q3>> : q1 \in BuildQuotes(now), q2 \in BuildQuotes(now),
                      q3 \in BuildQuotes(now)} \cup
    UNION {{<<q1, q2, [src |-> "Other",
                       price |-> FAdd(q1.price, F(4, 1000000000)),
                       ts_ms |-> now]>> :
               q2 \in {q \in BuildQuotes(now) : q.price = q1.price}} :
           q1 \in BuildQuotes(now)}

\* the margins eps by which a further quote lies beyond the band
Margins == {F(1, 10), One}

\* the price med + sign * (mad_k + eps) * mad
outlier_price(mad_k, med, md, sign, eps) ==
    FAdd(med, FMul(F(sign, 1), FMul(FAdd(mad_k, eps), md)))

\* the prices at med +- (mad_k + eps) * mad of the prices ps that a quote
\* can carry (finite and positive)
outlier_prices(mad_k, ps, med) ==
    {px \in {outlier_price(mad_k, med, mad(ps, med), sign, eps) :
                sign \in {0 - 1, 1}, eps \in Margins} :
        is_finite(px) /\ FGt(px, Zero)}

\* the prices of the quotes
prices_of(quotes) == [i \in 1..Len(quotes) |-> quotes[i].price]

\* build is called (once) on the quotes, and on the quotes with one more
\* quote at med +- (mad_k + eps) * mad, the median and MAD being the quotes'
Build ==
    /\ ~is_some(build_call)
    /\ \E now \in BuildNows : \E quotes \in BuildInputs(now) :
         \E px \in outlier_prices(cfg.cfd_mad_k, prices_of(quotes),
                                   median(prices_of(quotes))) :
           build_call' =
               Some([builder |-> new_builder(cfg), quotes |-> quotes,
                     extra |-> [src |-> "Other", price |-> px,
                                ts_ms |-> now],
                     now |-> now,
                     ret |-> build(new_builder(cfg), quotes, now),
                     ret_plus |->
                         build(new_builder(cfg),
                               Append(quotes, [src |-> "Other", price |-> px,
                                               ts_ms |-> now]),
                               now)])
    /\ UNCHANGED <<oracle_vars, collect_call, ema_feed, daemon, latest_call,
                   stage_call, cfd_index>>

SpecBuild == Init /\ [][Build]_vars

(***************************************************************************)
(* The EMA on its own (Ema::update)                                        *)
(***************************************************************************)
\* number of updates fed to the Ema
MaxUpdates == 3

\* smoothing factors in (0, 1): the oracle's 0.005, and larger ones
Alphas == {F(5, 1000), F(1, 2), F(9, 10)}

\* states an Ema can be in: empty, or holding a value
EmaValues == {None, Some(F(90, 1)), Some(F(100, 1)), Some(F(110, 1))}

\* the constant inputs
EmaInputs == {F(100, 1), F(1, 3)}

\* an Ema in some state is about to be fed the constant x
EmaStart ==
    /\ ~is_some(ema_feed)
    /\ \E alpha \in Alphas, v \in EmaValues, x \in EmaInputs :
         ema_feed' = Some([ema |-> [alpha |-> alpha, value |-> v], x |-> x,
                           updates |-> 0, before |-> v])
    /\ UNCHANGED <<oracle_vars, collect_call, build_call, daemon, latest_call,
                   stage_call, cfd_index>>

\* the record of a feed after one more update to ema2
fed(feed, ema2) ==
    [feed EXCEPT !.ema = ema2, !.updates = feed.updates + 1,
                 !.before = feed.ema.value]

\* update(x) is called once more
EmaUpdate ==
    /\ is_some(ema_feed)
    /\ unwrap(ema_feed).updates < MaxUpdates
    /\ ema_feed' = Some(fed(unwrap(ema_feed),
                            Ema_update(unwrap(ema_feed).ema,
                                       unwrap(ema_feed).x)))
    /\ UNCHANGED <<oracle_vars, collect_call, build_call, daemon, latest_call,
                   stage_call, cfd_index>>

NextEma == EmaStart \/ EmaUpdate

SpecEma == Init /\ [][NextEma]_vars

(***************************************************************************)
(* The daemon's loop in time (main, src/src/bin/oracle_daemon.rs)          *)
(***************************************************************************)
\* number of firings the ticker delivers
MaxFirings == 4

\* how long a tick_once call can take (ms): well within a period, or
\* longer than one or two periods
Durations == {100, 2500, 5000}

\* the ticker's period: cfg.poll_ms, 1000 ms when that is 0
tick_ms(config) == IF config.poll_ms = 0 THEN 1000 ELSE config.poll_ms

\* tokio::time::interval(period) with its default missed-tick behaviour
\* (the daemon sets none): the deadline after the one that was due at
\* timeout and was delivered at now_ms is one period after timeout, whether
\* or not that is already past
next_timeout(timeout, now_ms, period) == timeout + period

\* the ticker branch of select! spawning tick_once instead of awaiting it
ticker_branch_spawns(d) == [d EXCEPT !.running = d.running + 1]

\* `_ = ticker.tick() => { oracle.tick_once().await; }`: the loop stays in
\* the branch until tick_once returns
ticker_branch(d) == [d EXCEPT !.pc = "tick_once", !.running = d.running + 1]

\* the loop at select!, the ticker at deadline, was delivered a firing at
\* now_ms
delivered(d, now_ms, period) ==
    ticker_branch([d EXCEPT !.now = now_ms,
                            !.deadline = next_timeout(d.deadline, now_ms,
                                                      period),
                            !.firings = d.firings + 1])

\* ticker.tick() completes, at the deadline or at once when that is past
TickerFires ==
    /\ daemon.pc = "select"
    /\ daemon.firings < MaxFirings
    /\ daemon' = delivered(daemon, MaxI(daemon.now, daemon.deadline),
                           tick_ms(cfg))
    /\ UNCHANGED <<oracle_vars, collect_call, build_call, ema_feed, latest_call,
                   stage_call, cfd_index>>

\* tick_once returns after d ms and the loop comes back to select!
TickOnceReturns ==
    /\ daemon.pc = "tick_once"
    /\ \E d \in Durations :
         daemon' = [daemon EXCEPT !.pc = "select", !.now = daemon.now + d,
                                  !.running = daemon.running - 1]
    /\ UNCHANGED <<oracle_vars, collect_call, build_call, ema_feed, latest_call,
                   stage_call, cfd_index>>

\* Ctrl-C is received while the loop is at select!
CtrlC ==
    /\ daemon.pc = "select"
    /\ daemon' = [daemon EXCEPT !.pc = "exited"]
    /\ UNCHANGED <<oracle_vars, collect_call, build_call, ema_feed, latest_call,
                   stage_call, cfd_index>>

NextLoop == TickerFires \/ TickOnceReturns \/ CtrlC

SpecLoop == Init /\ [][NextLoop]_vars

(***************************************************************************)
(* The API Ninjas adapter (NinjasCfd, src/src/providers/cfd.rs)            *)
(***************************************************************************)
\* the symbols from_env maps to API Ninjas names
SymMap ==
    [LEAN_HOGS_PERP |-> "lean_hogs", LIVE_CATTLE_PERP |-> "live_cattle",
     FEEDER_CATTLE_PERP |-> "feeder_cattle", CORN_PERP |-> "corn",
     SOYBEAN_PERP |-> "soybean", WHEAT_PERP |-> "wheat",
     COFFEE_PERP |-> "coffee", COCOA_PERP |-> "cocoa",
     SUGAR_PERP |-> "sugar", GOLD_PERP |-> "gold", SILVER_PERP |-> "silver"]

\* map_symbol letting every symbol through under its own name
map_symbol_passes(symbol) == [ok |-> TRUE, name |-> symbol]

\* NinjasCfd::map_symbol
map_symbol(symbol) ==
    IF symbol \in DOMAIN SymMap
    THEN [ok |-> TRUE, name |-> SymMap[symbol]]
    ELSE [ok |-> FALSE, err |-> "unsupported symbol for API Ninjas"]

\* the pause before each attempt of latest (ms), first attempt first
Backoffs == <<0, 250, 500, 1000>>

\* StatusCode::is_success and StatusCode::is_server_error
is_success(status) == 200 <= status /\ status <= 299
is_server_error(status) == 500 <= status /\ status <= 599

\* a status that is retried whenever it is not a success
retryable_any_failure(status) == TRUE

\* the statuses latest retries: 429 and 5xx
retryable(status) == status = 429 \/ is_server_error(status)

\* what send() gave: an error, or a response r with a status and a body
\* that decodes to a NinjasResp or does not
send_failed(r) == r.kind = "error"

\* the attempt that got r is followed by another one
retried(r) ==
    send_failed(r) \/ (~is_success(r.status) /\ retryable(r.status))

\* the price check of latest on a decoded response
valid_price(px) == is_finite(px) /\ FGt(px, Zero)

\* what latest returns on a response that is not retried
answer(r, now) ==
    IF is_success(r.status)
    THEN IF ~r.decodes
         THEN [ok |-> FALSE, err |-> "decoding Ninjas JSON"]
         ELSE IF ~valid_price(r.price)
         THEN [ok |-> FALSE, err |-> "API Ninjas returned invalid price"]
         ELSE [ok |-> TRUE, src |-> "Ninjas", price |-> r.price,
               ts_ms |-> IF r.updated > 0 THEN r.updated * 1000 ELSE now]
    ELSE [ok |-> FALSE, err |-> "API Ninjas HTTP error"]

\* the attempts of a call so far: the tags of the requests sent and the
\* pause made before each (0: none)
NoAttempts == [attempts |-> <<>>, backoffs |-> <<>>]

\* attempt number i (from 1) is made
sent(made, i) ==
    [attempts |-> Append(made.attempts, i - 1),
     backoffs |-> Append(made.backoffs, Backoffs[i])]

\* latest returns ret after the attempts made
returned(made, ret) ==
    [ret |-> ret, attempts |-> made.attempts, backoffs |-> made.backoffs]

RECURSIVE latest_from(_, _, _, _)
\* the loop of latest from attempt i on, the server answering attempt j
\* with script[j]
latest_from(script, now, i, made) ==
    IF i > Len(Backoffs)
    THEN returned(made,
                  [ok |-> FALSE, err |-> "ninjas request failed after retries"])
    ELSE IF retried(script[i])
    THEN latest_from(script, now, i + 1, sent(made, i))
    ELSE returned(sent(made, i), answer(script[i], now))

\* NinjasCfd::latest
latest(symbol, script, now) ==
    IF map_symbol(symbol).ok
    THEN latest_from(script, now, 1, NoAttempts)
    ELSE returned(NoAttempts, map_symbol(symbol))

\* the symbols asked for: one the adapter maps and one it does not
Symbols == {"LEAN_HOGS_PERP", "LH"}

\* the adapter's clock when it is called
LatestNows == {5000000}

\* what the server can send back: prices and update times (unix seconds)
Bodies ==
    {[price |-> F(895, 10), updated |-> 1700],
     [price |-> F(90, 1), updated |-> 0],
     [price |-> Zero, updated |-> 1700],
     [price |-> F(0 - 1, 1), updated |-> 1700],
     [price |-> PosInf, updated |-> 1700]}

\* what an attempt can get
Responses ==
    {[kind |-> "error"]} \cup
    {[kind |-> "response", status |-> st, decodes |-> FALSE] :
        st \in {200, 404, 429, 500, 503}} \cup
    {[kind |-> "response", status |-> 200, decodes |-> TRUE,
      price |-> b.price, updated |-> b.updated] : b \in Bodies}

\* the answers of the server to the attempts of one call
Scripts == [1..Len(Backoffs) -> Responses]

\* latest is called (once)
Latest ==
    /\ ~is_some(latest_call)
    /\ \E symbol \in Symbols, script \in Scripts, now \in LatestNows :
         latest_call' = Some([symbol |-> symbol, script |-> script,
                              now |-> now,
                              call |-> latest(symbol, script, now)])
    /\ UNCHANGED <<oracle_vars, collect_call, build_call, ema_feed, daemon,
                   stage_call, cfd_index>>

SpecLatest == Init /\ [][Latest]_vars

(***************************************************************************)
(* The stages of the tick called on their own (src/src/oracle.rs,          *)
(* src/src/funding.rs)                                                     *)
(***************************************************************************)
\* number of calls made on one circuit breaker
MaxTrips == 3

\* the consensus prices that are not numbers: the builder returns NaN only
\* when cfd_tau_ms is 0
NaNPrices == IF cfg.cfd_tau_ms = 0 THEN {NaN} ELSE {}

\* cb.tripped(px, ts_ms) is called on a new breaker, and again on the
\* breaker as the call left it: at a price near or far from the last one
\* (or NaN), 2 s, 10 s or 30 s after the last call, or 5 s before it (the
\* timestamps are wall-clock readings)
Trip ==
    /\ \/ ~is_some(stage_call)
       \/ /\ is_some(stage_call)
          /\ unwrap(stage_call).op = "tripped"
          /\ unwrap(stage_call).n < MaxTrips
    /\ \E px \in {F(100, 1), F(1001, 10), F(110, 1)} \cup NaNPrices,
          gap \in {0 - 5000, 2000, 10000, 30000},
          breaker \in {IF is_some(stage_call) THEN unwrap(stage_call).ret.cb
                       ELSE NewCircuitBreaker},
          last_ts \in {IF is_some(stage_call) THEN unwrap(stage_call).ts_ms
                       ELSE 60000} :
         stage_call' =
             Some([op |-> "tripped", before |-> breaker, px |-> px,
                   ts_ms |-> last_ts + gap,
                   n |-> IF is_some(stage_call)
                         THEN unwrap(stage_call).n + 1 ELSE 1,
                   ret |-> tripped(breaker, px, last_ts + gap)])
    /\ UNCHANGED <<oracle_vars, collect_call, build_call, ema_feed, daemon,
                   latest_call, cfd_index>>

\* tick_once is called (once) from the builder's result on: on a new
\* oracle, or on one that accepted a mark at prev (or NaN) at 60 s, with a
\* consensus at px 2 s or 60 s later whose spread is spread; and again
\* with cfd_dispersion_bps_max set to other_max
Built ==
    /\ ~is_some(stage_call)
    /\ \E prev \in {None, Some(F(100, 1))} \cup {Some(x) : x \in NaNPrices},
          px \in {F(99, 1), F(9996, 100), F(100, 1), F(1005, 10), F(105, 1)}
                 \cup NaNPrices,
          gap \in {2000, 60000},
          spread \in {0, 35, 36, 5000},
          other_max \in {0, 80} :
         \E o \in {[Oracle EXCEPT
                      !.last_good_mark =
                          IF is_some(prev)
                          THEN Some([symbol |-> cfg.symbol,
                                     price |-> unwrap(prev),
                                     expo |-> cfg.expo, ts_ms |-> 60000,
                                     source |-> "cfd-consensus",
                                     window_sec |-> 0])
                          ELSE None,
                      !.funding_ref_ema = [NewEma EXCEPT !.value = prev],
                      !.cb = IF is_some(prev)
                             THEN anchored(NewCircuitBreaker, unwrap(prev),
                                           60000)
                             ELSE NewCircuitBreaker]},
            built \in {[ok |-> TRUE,
                        tick |-> [symbol |-> cfg.symbol, price |-> px,
                                  expo |-> cfg.expo, ts_ms |-> 60000 + gap,
                                  source |-> "cfd-consensus",
                                  window_sec |-> 0],
                        stats |-> [n_fresh |-> 2, n_used |-> 2,
                                   n_dropped |-> 0,
                                   spread_bps |-> spread]]} :
           stage_call' =
               Some([op |-> "tick_built", o |-> o, built |-> built,
                     clamped |-> step_clamp(o.cfg, o.last_good_mark,
                                            built.tick),
                     ret |-> tick_built(o, built),
                     other_max |-> other_max,
                     other |-> tick_built(
                         [o EXCEPT !.cfg.cfd_dispersion_bps_max = other_max],
                         built)])
    /\ UNCHANGED <<oracle_vars, collect_call, build_call, ema_feed, daemon,
                   latest_call, cfd_index>>

\* tick_once is called (once) from the freshness filter on, on a new oracle
\* whose cfd_tau_ms is tau, the clock reading 200 s, with up to two quotes
\* of the ages given (negative: stamped after the reading); the filter is
\* applied as well with cfd_max_staleness_ms set to other_stale
Fresh ==
    /\ ~is_some(stage_call)
    /\ \E tau \in {0, 4000, 8000, 50000},
          other_stale \in {1000, 200000},
          ages \in {<<>>} \cup
                   {<<a>> : a \in {0 - 1500, 0, 15000, 15001, 24000, 24001,
                                   120000, 120001}} \cup
                   {<<a1, a2>> : a1 \in {0, 15001, 24000, 120000},
                                 a2 \in {0 - 1500, 15000, 24001, 120001}} :
         \E o \in {[Oracle EXCEPT !.cfg.cfd_tau_ms = tau]},
            quotes \in {[i \in 1..Len(ages) |->
                           [src |-> "Other", price |-> F(100, 1),
                            ts_ms |-> 200000 - ages[i]]]} :
           \E fresh \in {filter_fresh(quotes, 200000,
                                       derived_staleness_ms(o.cfg))} :
             stage_call' =
                 Some([op |-> "tick_fresh", o |-> o, quotes |-> quotes,
                       now |-> 200000, fresh |-> fresh,
                       other_stale |-> other_stale,
                       fresh_other |->
                           filter_fresh(quotes, 200000,
                               derived_staleness_ms(
                                   [o.cfg EXCEPT !.cfd_max_staleness_ms =
                                                     other_stale])),
                       ret |-> tick_fresh(o, [now_build |-> 200000], fresh)])
    /\ UNCHANGED <<oracle_vars, collect_call, build_call, ema_feed, daemon,
                   latest_call, cfd_index>>

\* FundingEngine::compute is called (once): the daemon's engine or another,
\* a mark and a reference tick
Compute ==
    /\ ~is_some(stage_call)
    /\ \E kappa \in {F(2, 100), F(1, 2), Zero},
          cap \in {F(5, 1000), F(4, 1000), Zero},
          interval_sec \in {8 * 60 * 60, 3600},
          mark_px \in {F(100, 1), F(99, 1), F(50, 1)} \cup NaNPrices,
          ref_px \in {F(99, 1), F(100, 1), F(200, 1)} :
         \E engine \in {[kappa |-> kappa, cap |-> cap,
                          interval_sec |-> interval_sec]},
            mark \in {[symbol |-> cfg.symbol, price |-> mark_px,
                       expo |-> cfg.expo, ts_ms |-> 60000,
                       source |-> "cfd-consensus", window_sec |-> 0]} :
           stage_call' =
               Some([op |-> "compute", engine |-> engine, mark |-> mark,
                     index_ref |-> ref_tick(mark, ref_px),
                     ret |-> compute(engine, mark, ref_tick(mark, ref_px))])
    /\ UNCHANGED <<oracle_vars, collect_call, build_call, ema_feed, daemon,
                   latest_call, cfd_index>>

\* the values of mad_k a builder is made with
MadKs == {Zero, F(1, 1000000000), F(7, 2), PosInf, F(0 - 1, 1)}

\* the quote sets the builder is given at now: one to three quotes at
\* prices the collector lets through, the first of the given age
ConsensusInputs(now, age) ==
    {[i \in 1..Len(ps) |->
         [src |-> "Other", price |-> ps[i],
          ts_ms |-> IF i = 1 THEN now - age ELSE now]] :
       ps \in UNION {[1..n -> {F(1, 100), F(100, 1), F(101, 1), F(150, 1)}] :
                       n \in 1..3}}

\* CfdConsensus::build is called (once) by a builder with the oracle's
\* symbol, expo and tau_ms and any of the mad_k above; the median, the MAD
\* and the kept quotes of the call are recorded next to what it returns
Consensus ==
    /\ ~is_some(stage_call)
    /\ \E mad_k \in MadKs, age \in {0, 20000} :
         \E builder \in {[new_builder(cfg) EXCEPT !.mad_k = mad_k]},
            quotes \in ConsensusInputs(60000, age) :
           \E med \in {median(prices_of(quotes))} :
             \E md \in {mad(prices_of(quotes), med)} :
               stage_call' =
                   Some([op |-> "build", builder |-> builder,
                         quotes |-> quotes, now |-> 60000,
                         med |-> med, md |-> md,
                         kept |-> filter_kept(quotes, med,
                                              FMul(builder.mad_k, md)),
                         ret |-> build(builder, quotes, 60000)])
    /\ UNCHANGED <<oracle_vars, collect_call, build_call, ema_feed, daemon,
                   latest_call, cfd_index>>

NextStages == Trip \/ Built \/ Fresh \/ Compute \/ Consensus

SpecStages == Init /\ [][NextStages]_vars

(***************************************************************************)
(* The rolling CFD index on its own (src/src/index/cfd.rs)                 *)
(***************************************************************************)
MaxBuilds == 3

\* CfdIndex::new(symbol, expo, twap_sec, median_sec, max_staleness_ms,
\* jump_pct)
CfdIndex_new(symbol, expo, twap_sec, median_sec, max_staleness_ms, jump_pct) ==
    [symbol |-> symbol, expo |-> expo, twap_sec |-> twap_sec,
     median_sec |-> median_sec, max_staleness_ms |-> max_staleness_ms,
     jump_pct |-> jump_pct, buf |-> <<>>, last_px |-> None]

RECURSIVE prune(_, _, _)
\* CfdIndex::prune: the buffer without the ticks at its front that are
\* older than the window
prune(buf, now_ms, window_ms) ==
    IF Len(buf) > 0 /\ now_ms - Head(buf).ts_ms > window_ms
    THEN prune(Tail(buf), now_ms, window_ms)
    ELSE buf

RECURSIVE twap_from(_, _, _, _, _, _, _)
\* CfdIndex::twap, the loop from the tick at i down to the oldest, and the
\* quotient after it
twap_from(buf, i, now_ms, window_ms, last_ts, num, den) ==
    IF i = 0 \/ now_ms - buf[i].ts_ms > window_ms
    THEN (IF FGt(den, Zero) THEN Some(FDiv(num, den)) ELSE None)
    ELSE twap_from(buf, i - 1, now_ms, window_ms, buf[i].ts_ms,
                   FAdd(num, FMul(buf[i].price,
                                  F(MaxI(last_ts - buf[i].ts_ms, 1), 1))),
                   FAdd(den, F(MaxI(last_ts - buf[i].ts_ms, 1), 1)))

\* CfdIndex::twap
twap(index, now_ms) ==
    IF Len(index.buf) = 0 THEN None
    ELSE twap_from(index.buf, Len(index.buf), now_ms, index.twap_sec * 1000,
                   now_ms, Zero, Zero)

\* CfdIndex::median of a buffer that is not empty
buf_median(index) ==
    Mid(Sort([i \in 1..Len(index.buf) |-> index.buf[i].price]))

\* build, `(now - tick.ts_ms) as u64 > self.max_staleness_ms`: a negative
\* difference is cast to a value of 2^63 or more
is_stale(index, tick, now) ==
    \/ now - tick.ts_ms < 0
    \/ now - tick.ts_ms > index.max_staleness_ms

\* build, `((tick.price - prev)/prev).abs() > self.jump_pct`
is_jump(index, tick) ==
    /\ is_some(index.last_px)
    /\ FGt(FAbs(FDiv(FSub(tick.price, unwrap(index.last_px)),
                      unwrap(index.last_px))),
           index.jump_pct)

\* build, from `let twap` on, tw being what twap returned
build_fused(index, now, tw) ==
    IF ~is_some(tw) THEN [ok |-> FALSE, err |-> "NoData"]
    ELSE [ok |-> TRUE,
          tick |-> [symbol |-> index.symbol,
                    price |-> FAdd(FMul(F(1, 2), unwrap(tw)),
                                   FMul(F(1, 2), buf_median(index))),
                    expo |-> index.expo, ts_ms |-> now, source |-> "cfd",
                    window_sec |-> index.twap_sec]]

\* build, after the tick was pushed and the buffer pruned
build_pushed(index, now) ==
    [self |-> index, ret |-> build_fused(index, now, twap(index, now))]

\* build taking the price of a tick it rejects as Jump for the next
\* comparison
index_build_follows(index, tick, now) ==
    IF is_stale(index, tick, now)
    THEN [self |-> index, ret |-> [ok |-> FALSE, err |-> "Stale"]]
    ELSE IF is_jump(index, tick)
    THEN [self |-> [index EXCEPT !.last_px = Some(tick.price)],
          ret |-> [ok |-> FALSE, err |-> "Jump"]]
    ELSE build_pushed(
             [index EXCEPT
                 !.buf = prune(Append(index.buf, tick), now,
                               MaxI(index.median_sec, index.twap_sec) * 1000),
                 !.last_px = Some(tick.price)],
             now)

\* CfdIndex::build of tick when the wall clock reads now: the object
\* afterwards and the result
index_build(index, tick, now) ==
    IF is_stale(index, tick, now)
    THEN [self |-> index, ret |-> [ok |-> FALSE, err |-> "Stale"]]
    ELSE IF is_jump(index, tick)
    THEN [self |-> index, ret |-> [ok |-> FALSE, err |-> "Jump"]]
    ELSE build_pushed(
             [index EXCEPT
                 !.buf = prune(Append(index.buf, tick), now,
                               MaxI(index.median_sec, index.twap_sec) * 1000),
                 !.last_px = Some(tick.price)],
             now)

\* the windows and the jump limit an index is made with: (twap_sec,
\* median_sec, jump_pct)
IndexParams == {<<5, 30, F(5, 100)>>, <<60, 0, F(2, 100)>>}

\* the ticks of a build: the price, the time since the previous call and
\* the age of the tick (negative for a timestamp ahead of the clock)
IndexPrices == {F(100, 1), F(104, 1), F(110, 1)}
IndexTimings == {<<1000, 0>>, <<1000, 6000>>, <<1000, 0 - 1>>, <<40000, 0>>}

\* CfdIndex::new is called
IndexNew ==
    /\ ~is_some(cfd_index)
    /\ \E p \in IndexParams :
         cfd_index' =
             Some([self |-> CfdIndex_new(cfg.symbol, cfg.expo, p[1], p[2],
                                         5000, p[3]),
                   n |-> 0, now |-> 0, tick |-> None, before |-> None,
                   ret |-> None, jumps |-> 0])
    /\ UNCHANGED <<oracle_vars, collect_call, build_call, ema_feed, daemon,
                   latest_call, stage_call>>

\* build is called on the index; jumps counts the calls in a row, up to
\* this one, that returned Jump
IndexBuild ==
    /\ is_some(cfd_index)
    /\ unwrap(cfd_index).n < MaxBuilds
    /\ \E px \in IndexPrices, t \in IndexTimings :
         \E now \in {unwrap(cfd_index).now + t[1]} :
           \E r \in {index_build(unwrap(cfd_index).self,
                                  [price |-> px, ts_ms |-> now - t[2]],
                                  now)} :
             cfd_index' =
                 Some([self |-> r.self, n |-> unwrap(cfd_index).n + 1,
                       now |-> now,
                       tick |-> Some([price |-> px, ts_ms |-> now - t[2]]),
                       before |-> Some(unwrap(cfd_index).self),
                       ret |-> Some(r.ret),
                       jumps |->
                           IF ~r.ret.ok /\ r.ret.err = "Jump"
                           THEN unwrap(cfd_index).jumps + 1 ELSE 0])
    /\ UNCHANGED <<oracle_vars, collect_call, build_call, ema_feed, daemon,
                   latest_call, stage_call>>

NextIndex == IndexNew \/ IndexBuild

SpecIndex == Init /\ [][NextIndex]_vars

(***************************************************************************)
(* Properties                                                              *)
(***************************************************************************)
\* the last tick handed a mark to publish_index
Published == \E i \in 1..Len(calls) : calls[i].op = "publish_index"

\* the mark the last tick handed to publish_index
Mark == calls[CHOOSE i \in 1..Len(calls) : calls[i].op = "publish_index"].tick

\* the funding update the last tick handed to publish_funding
Funding ==
    calls[CHOOSE i \in 1..Len(calls) : calls[i].op = "publish_funding"].fu

\* C1: every two consecutive published marks m_prev, m satisfy
\* |m.price - m_prev.price| <= max(max_step_per_tick, 5e-4) * m_prev.price,
\* frozen ticks included.
C1_StepBound ==
    (Published /\ is_some(last_published)) =>
        LET prev == unwrap(last_published).price
        IN FLe(FAbs(FSub(Mark.price, prev)),
               FMul(FMax(cfg.max_step_per_tick, StepFloor), prev))

\* C2: every mark handed to publish_index has a finite price strictly
\* greater than 0, whatever the providers returned.
C2_FinitePositive ==
    Published => is_finite(Mark.price) /\ FGt(Mark.price, Zero)

\* C3: every published FundingUpdate has |rate| <= the configured
\* funding_cap (stated for the rates that are numbers: a NaN rate comes with
\* a NaN mark, which is C2's subject).
C3_RateWithinConfiguredCap ==
    (Len(calls) = 2 /\ ~is_nan(Funding.rate)) =>
        FLe(FAbs(Funding.rate), cfg.funding_cap)

\* C4: on a tick where the breaker trips and a last good mark exists, the
\* published mark is exactly that last good mark (price, original ts_ms,
\* source) and the tick leaves last_good_mark and the breaker anchor
\* unchanged.
C4_FrozenTick ==
    [][label' = "circuit_breaker" =>
          /\ is_some(last_good_mark)
          /\ calls'[1].op = "publish_index"
          /\ calls'[1].tick = unwrap(last_good_mark)
          /\ last_good_mark' = last_good_mark
          /\ cb' = cb]_vars

C4_Witness ==
    /\ label = "circuit_breaker"
    /\ Published
    /\ Mark = unwrap(last_good_mark)
    /\ Mark.ts_ms < clock
    /\ Mark.source = "cfd-consensus"

\* C5: a tick that aborts for lack of fresh quotes or because the consensus
\* fails publishes nothing and leaves last_good_mark, the funding reference
\* EMA and the breaker anchor unchanged.
C5_AbortLeavesState ==
    [][label' \in {"stale_or_insufficient", "no_consensus"} =>
          /\ calls' = <<>>
          /\ last_good_mark' = last_good_mark
          /\ funding_ref_ema' = funding_ref_ema
          /\ cb' = cb]_vars

C5_Witness ==
    /\ label = "stale_or_insufficient"
    /\ calls = <<>>
    /\ is_some(last_good_mark)
    /\ is_some(funding_ref_ema.value)
    /\ is_some(cb.last_anchor_price)

\* C6: a tick makes no publisher call at all, or exactly one publish_index
\* call followed by exactly one publish_funding call.
C6_IndexThenFunding ==
    \/ calls = <<>>
    \/ /\ Len(calls) = 2
       /\ calls[1].op = "publish_index"
       /\ calls[2].op = "publish_funding"

C6_Witness ==
    /\ Len(calls) = 2
    /\ calls[1].op = "publish_index" /\ ~calls[1].ok
    /\ calls[2].op = "publish_funding" /\ calls[2].ok

\* C7: with a non-decreasing wall clock the ts_ms of successive published
\* marks never decreases, frozen ticks (which re-publish the last good mark
\* with its original ts_ms) included.
C7_MonotoneTs ==
    (Published /\ is_some(last_published)) =>
        unwrap(last_published).ts_ms <= Mark.ts_ms

C7_Witness ==
    /\ label = "circuit_breaker"
    /\ Published /\ is_some(last_published)
    /\ unwrap(last_published).ts_ms = Mark.ts_ms
    /\ Mark.ts_ms < clock

\* C8: publisher errors do not affect the oracle's state: after a tick that
\* reaches the publish stage, last_good_mark, the EMA value and the breaker
\* anchor are what the published mark alone makes them, whatever
\* publish_index and publish_funding returned, and the mark is in
\* last_good_mark.
C8_PublisherErrorsKeepState ==
    [][(\E i \in 1..Len(calls') : calls'[i].op = "publish_index") =>
          LET m == calls'[CHOOSE i \in 1..Len(calls') :
                              calls'[i].op = "publish_index"].tick
          IN /\ last_good_mark' = Some(m)
             /\ funding_ref_ema' = Ema_update(funding_ref_ema, m.price)
             /\ cb' = IF label' = "circuit_breaker" THEN cb
                      ELSE tripped(cb, m.price, m.ts_ms).cb]_vars

C8_Witness ==
    /\ label = "ok"
    /\ Len(calls) = 2
    /\ ~calls[2].ok
    /\ last_good_mark = Some(Mark)
    /\ cb.last_anchor_ms = Some(Mark.ts_ms)

\* C9, as claimed: on a tick where publish_index returns an error the EMA
\* is not updated and no funding update is published.
C9_OnlyAfterSuccess ==
    [][(Len(calls') > 0 /\ ~calls'[1].ok) =>
          /\ funding_ref_ema' = funding_ref_ema
          /\ Len(calls') = 1]_vars

\* C9, amended: the EMA is updated and the funding computed and published
\* after the mark publish whether or not it succeeded; on a tick where
\* publish_index returns an error the EMA is still updated with the mark
\* and the funding update computed against it is still published.
C9_AfterPublishAttempt ==
    [][(Len(calls') > 0 /\ ~calls'[1].ok) =>
          /\ calls'[1].op = "publish_index"
          /\ funding_ref_ema' =
                Ema_update(funding_ref_ema, calls'[1].tick.price)
          /\ Len(calls') = 2
          /\ calls'[2].op = "publish_funding"
          /\ calls'[2].fu =
                compute(DaemonFundingEngine, calls'[1].tick,
                        [calls'[1].tick EXCEPT
                            !.price = unwrap(funding_ref_ema'.value),
                            !.source = "ref-ema"])]_vars

C9_Witness ==
    /\ Len(calls) = 2
    /\ ~calls[1].ok
    /\ calls[2].ok
    /\ funding_ref_ema.value # Some(Mark.price)
    /\ is_finite(Funding.rate) /\ Funding.rate # Zero

\* C10: once tripped, the breaker can remain tripped on every subsequent
\* tick, however far the timestamps advance: whatever the timing of the
\* next tick, some provider input makes it trip again.
C10_CanRemainTripped ==
    label = "circuit_breaker" =>
        \A t \in Timings :
            \E r \in Outcomes(clock + t[1], t[2]) : r.label = "circuit_breaker"

\* the provider result r passes the collector's sanity check
Accepted(r) == r.ok /\ is_finite(r.price) /\ FGt(r.price, Zero)

\* the quote of provider i among the quotes a collect returned
QuoteOf(quotes, i) ==
    quotes[CHOOSE j \in 1..Len(quotes) : quotes[j].src = cfd_source(Cfds[i])]

HasQuoteOf(quotes, i) ==
    \E j \in 1..Len(quotes) : quotes[j].src = cfd_source(Cfds[i])

\* C11: every quote a collect returns is stamped at most 2000 ms after the
\* collector's clock reading: a quote the provider stamped more than 2000 ms
\* after it is restamped to the reading, every other quote keeps the
\* provider's timestamp
C11_FutureClamped ==
    is_some(collect_call) =>
        /\ \A j \in 1..Len(unwrap(collect_call).ret.quotes) :
              unwrap(collect_call).ret.quotes[j].ts_ms
                  <= unwrap(collect_call).now + 2000
        /\ \A i \in 1..Len(Cfds) :
              Accepted(unwrap(collect_call).results[i]) =>
                  /\ HasQuoteOf(unwrap(collect_call).ret.quotes, i)
                  /\ QuoteOf(unwrap(collect_call).ret.quotes, i).ts_ms =
                        IF unwrap(collect_call).results[i].ts_ms
                               - unwrap(collect_call).now > 2000
                        THEN unwrap(collect_call).now
                        ELSE unwrap(collect_call).results[i].ts_ms

\* a collect restamped the first provider's quote (2001 ms ahead) and kept
\* the second provider's (2000 ms ahead)
C11_Witness ==
    /\ is_some(collect_call)
    /\ Len(unwrap(collect_call).ret.quotes) = 2
    /\ unwrap(collect_call).results[1].ts_ms = unwrap(collect_call).now + 2001
    /\ unwrap(collect_call).results[2].ts_ms = unwrap(collect_call).now + 2000
    /\ unwrap(collect_call).ret.quotes[1].ts_ms = unwrap(collect_call).now
    /\ unwrap(collect_call).ret.quotes[2].ts_ms
           = unwrap(collect_call).now + 2000

\* C12: a collect reports as many attempts as there are registered
\* providers and returns, in provider order, exactly one quote for each
\* provider whose result is Ok with a finite price > 0, carrying that
\* provider's price, whatever the other provider returned
C12_FailuresIsolated ==
    is_some(collect_call) =>
        /\ unwrap(collect_call).ret.attempted = Len(Cfds)
        /\ Len(unwrap(collect_call).results) = Len(Cfds)
        /\ Len(unwrap(collect_call).ret.quotes) =
              Cardinality({i \in 1..Len(Cfds) :
                              Accepted(unwrap(collect_call).results[i])})
        /\ \A i \in 1..Len(Cfds) :
              Accepted(unwrap(collect_call).results[i]) =>
                  /\ HasQuoteOf(unwrap(collect_call).ret.quotes, i)
                  /\ QuoteOf(unwrap(collect_call).ret.quotes, i).price =
                        unwrap(collect_call).results[i].price

\* a collect in which the first provider failed and the second provider's
\* quote was returned
C12_Witness ==
    /\ is_some(collect_call)
    /\ ~unwrap(collect_call).results[1].ok
    /\ Accepted(unwrap(collect_call).results[2])
    /\ Len(unwrap(collect_call).ret.quotes) = 1
    /\ unwrap(collect_call).ret.quotes[1].src = "Owninja"
    /\ unwrap(collect_call).ret.attempted = 2

\* x and y are the same f64: the same number, or both NaN
FEq(x, y) ==
    \/ is_nan(x) /\ is_nan(y)
    \/ is_finite(x) /\ is_finite(y) /\ FCmp(x, y) = 0
    \/ ~is_finite(x) /\ x = y

\* the quotes of a build that survive its MAD rejection
KeptOf(builder, quotes) ==
    filter_kept(quotes, median(prices_of(quotes)),
                FMul(builder.mad_k,
                     mad(prices_of(quotes), median(prices_of(quotes)))))

\* the fused price of a successful build lies between the smallest and the
\* largest price of the kept quotes
WithinKept(ret, kept) ==
    ret.ok =>
        /\ \E i \in 1..Len(kept) : FLe(kept[i].price, ret.tick.price)
        /\ \E i \in 1..Len(kept) : FLe(ret.tick.price, kept[i].price)

\* the quotes of the last build call with the further quote
QuotesPlus == Append(unwrap(build_call).quotes, unwrap(build_call).extra)

\* C13: whenever build succeeds on a non-empty quote set, the fused price
\* lies within [min_kept, max_kept], the smallest and largest prices of
\* the quotes that survive the MAD rejection
C13_FusedWithinKept ==
    is_some(build_call) =>
        /\ WithinKept(unwrap(build_call).ret,
                      KeptOf(unwrap(build_call).builder,
                             unwrap(build_call).quotes))
        /\ WithinKept(unwrap(build_call).ret_plus,
                      KeptOf(unwrap(build_call).builder, QuotesPlus))

\* the fused price is the same without and with the further quote
SameFused ==
    /\ unwrap(build_call).ret.ok = unwrap(build_call).ret_plus.ok
    /\ unwrap(build_call).ret.ok =>
          FEq(unwrap(build_call).ret.tick.price,
              unwrap(build_call).ret_plus.tick.price)

\* the further quote leaves the median and the MAD of the quotes as they
\* were
SameAnchors ==
    /\ FEq(median(prices_of(QuotesPlus)),
           median(prices_of(unwrap(build_call).quotes)))
    /\ FEq(mad(prices_of(QuotesPlus), median(prices_of(QuotesPlus))),
           mad(prices_of(unwrap(build_call).quotes),
               median(prices_of(unwrap(build_call).quotes))))

\* C14 as claimed: adding one quote at med +- (mad_k + eps) * mad to any
\* quote set leaves the fused price equal to the result without that quote
C14_OutlierNoInfluence == is_some(build_call) => SameFused

\* C14 as amended: adding one quote at med +- (mad_k + eps) * mad leaves
\* the fused price equal to the result without that quote whenever the
\* addition leaves the median and the MAD of the quote set unchanged
C14_OutlierNoInfluenceSameAnchors ==
    (is_some(build_call) /\ SameAnchors) => SameFused

\* a build succeeded with a finite price, the further quote left median and
\* MAD as they were, and the build with it dropped it and nothing else
C14_Witness ==
    /\ is_some(build_call)
    /\ SameAnchors
    /\ unwrap(build_call).ret.ok
    /\ unwrap(build_call).ret_plus.ok
    /\ is_finite(unwrap(build_call).ret.tick.price)
    /\ Len(unwrap(build_call).quotes) = 2
    /\ ~FEq(unwrap(build_call).quotes[1].price,
            unwrap(build_call).quotes[2].price)
    /\ unwrap(build_call).ret.stats.n_used = 2
    /\ unwrap(build_call).ret_plus.stats.n_used = 2
    /\ unwrap(build_call).ret_plus.stats.n_dropped = 1

\* |v - x| for the value v an fed Ema holds
Distance(v, x) == FAbs(FSub(unwrap(v), x))

\* the last update of the fed Ema was made on a value (not on the empty
\* state)
UpdatedValue ==
    /\ is_some(ema_feed)
    /\ unwrap(ema_feed).updates > 0
    /\ is_some(unwrap(ema_feed).before)

\* C15 as claimed: for alpha in (0, 1) and a constant input x, |v - x|
\* strictly decreases with every update
C15_StrictlyCloser ==
    UpdatedValue =>
        FLt(Distance(unwrap(ema_feed).ema.value, unwrap(ema_feed).x),
            Distance(unwrap(ema_feed).before, unwrap(ema_feed).x))

\* C15 as amended: for alpha in (0, 1) and a constant input x, every
\* update of a value v # x strictly decreases |v - x|, and every update of
\* v = x leaves v = x; the update of the empty state sets v = x
C15_StrictlyCloserUnlessThere ==
    (is_some(ema_feed) /\ unwrap(ema_feed).updates > 0) =>
        IF ~is_some(unwrap(ema_feed).before)
        THEN FEq(unwrap(unwrap(ema_feed).ema.value), unwrap(ema_feed).x)
        ELSE IF FEq(unwrap(unwrap(ema_feed).before), unwrap(ema_feed).x)
        THEN FEq(unwrap(unwrap(ema_feed).ema.value), unwrap(ema_feed).x)
        ELSE FLt(Distance(unwrap(ema_feed).ema.value, unwrap(ema_feed).x),
                 Distance(unwrap(ema_feed).before, unwrap(ema_feed).x))

\* an Ema holding a value away from the input has been updated a third
\* time and is still away from it
C15_Witness ==
    /\ UpdatedValue
    /\ unwrap(ema_feed).updates = 3
    /\ FGt(Distance(unwrap(ema_feed).ema.value, unwrap(ema_feed).x), Zero)

\* C16: slow ticks skip interval firings rather than queueing them: when a
\* firing is delivered, no deadline that is already past is left waiting
\* to be delivered back-to-back after it
C16_MissedFiringsSkipped ==
    daemon.pc = "tick_once" => daemon.deadline > daemon.now

\* C17: no two ticks overlap: at most one tick_once call is in progress,
\* and only while the loop is inside the ticker branch
C17_NoOverlap ==
    /\ daemon.running <= 1
    /\ daemon.running = 1 <=> daemon.pc = "tick_once"

\* a tick_once call ran past the ticker's next deadline and returned with
\* no other call started meanwhile
C17_Witness ==
    /\ daemon.pc = "select"
    /\ daemon.firings >= 2
    /\ daemon.running = 0
    /\ daemon.deadline < daemon.now

\* the call of latest that was made, its result and its attempts
LatestCall == unwrap(latest_call)
LatestRet == LatestCall.call.ret
Requests == Len(LatestCall.call.attempts)

\* a failed attempt of the kinds the adapter is to retry: a connection
\* error, HTTP 429 or 5xx
Transient(r) ==
    \/ r.kind = "error"
    \/ r.kind = "response" /\ (r.status = 429 \/ r.status \in 500..599)

\* a successful attempt: a 2xx response that decodes to a positive finite
\* price
Successful(r) ==
    /\ r.kind = "response"
    /\ r.status \in 200..299
    /\ r.decodes
    /\ is_finite(r.price)
    /\ FGt(r.price, Zero)

\* attempt i of the call is reached: every attempt before it was retried
Reached(i) == \A j \in 1..(i - 1) : Transient(LatestCall.script[j])

\* C18: latest returns after at most 4 attempts, made once each in order
\* after pauses of 0, 250, 500 and 1000 ms; every attempt but the last
\* one made failed with a connection error, 429 or 5xx; a quote returned
\* is the one of the first successful attempt, which is the last attempt
\* made; and when all 4 attempts fail that way an error is returned (the
\* last two of a call that gets to send a request, its symbol being mapped)
C18_BoundedRetry ==
    is_some(latest_call) =>
        /\ Requests <= 4
        /\ LatestCall.call.attempts = [i \in 1..Requests |-> i - 1]
        /\ LatestCall.call.backoffs =
               SubSeq(<<0, 250, 500, 1000>>, 1, Requests)
        /\ \A i \in 1..(Requests - 1) : Transient(LatestCall.script[i])
        /\ LatestRet.ok =>
               /\ Successful(LatestCall.script[Requests])
               /\ FEq(LatestRet.price, LatestCall.script[Requests].price)
        /\ LatestCall.symbol \in DOMAIN SymMap =>
               /\ \A i \in 1..4 :
                      Reached(i) /\ Successful(LatestCall.script[i]) =>
                          LatestRet.ok /\ Requests = i
               /\ (\A i \in 1..4 : Transient(LatestCall.script[i])) =>
                      ~LatestRet.ok /\ Requests = 4

\* the call of the repository's test: 429, 429, then a quote, which the
\* fourth attempt would have answered too
C18_Witness ==
    /\ is_some(latest_call)
    /\ LatestCall.script[1].kind = "response"
    /\ LatestCall.script[1].status = 429
    /\ LatestCall.script[2].kind = "response"
    /\ LatestCall.script[2].status = 429
    /\ Successful(LatestCall.script[3])
    /\ Successful(LatestCall.script[4])
    /\ LatestRet.ok
    /\ Requests = 3

\* a 2xx response whose body does not decode
Undecodable(r) ==
    r.kind = "response" /\ r.status \in 200..299 /\ ~r.decodes

\* C19: a decode failure is transient: an attempt whose response does not
\* decode is followed by another attempt while any is left, and the call
\* succeeds when the attempt after it does
C19_DecodeRetried ==
    is_some(latest_call) =>
        \A i \in 1..3 :
            Reached(i) /\ Undecodable(LatestCall.script[i]) =>
                /\ Requests > i
                /\ Successful(LatestCall.script[i + 1]) => LatestRet.ok

\* a status that is not to be retried: a 4xx other than 429
Fatal4xx(r) ==
    r.kind = "response" /\ r.status \in 400..499 /\ r.status # 429

\* a 2xx response that decodes to a price that is not finite or not
\* positive
InvalidPrice(r) ==
    /\ r.kind = "response"
    /\ r.status \in 200..299
    /\ r.decodes
    /\ ~(is_finite(r.price) /\ FGt(r.price, Zero))

\* C20: fatal failures end latest at once with an error: an unsupported
\* symbol before any request is sent, a 4xx other than 429 and a decoded
\* price that is not finite or not positive on the attempt that got them
C20_FatalNoRetry ==
    is_some(latest_call) =>
        /\ LatestCall.symbol \notin DOMAIN SymMap =>
               ~LatestRet.ok /\ Requests = 0
        /\ LatestCall.symbol \in DOMAIN SymMap =>
               \A i \in 1..4 :
                   /\ Reached(i)
                   /\ \/ Fatal4xx(LatestCall.script[i])
                      \/ InvalidPrice(LatestCall.script[i])
                   => ~LatestRet.ok /\ Requests = i

\* a 404 on the second attempt, quotes waiting behind it
C20_Witness ==
    /\ is_some(latest_call)
    /\ LatestCall.symbol \in DOMAIN SymMap
    /\ Transient(LatestCall.script[1])
    /\ Fatal4xx(LatestCall.script[2])
    /\ Successful(LatestCall.script[3])
    /\ ~LatestRet.ok
    /\ Requests = 2

\* the call of a stage that was made, of the stage op
StageCall == unwrap(stage_call)
Called(op) == is_some(stage_call) /\ StageCall.op = op

\* the anchor of a breaker: set, and if so where
AnchorSet(breaker) ==
    is_some(breaker.last_anchor_price) /\ is_some(breaker.last_anchor_ms)
AnchorIs(breaker, px, ts_ms) ==
    /\ breaker.last_anchor_price = Some(px)
    /\ breaker.last_anchor_ms = Some(ts_ms)
SameAnchor(b1, b2) ==
    /\ b1.last_anchor_price = b2.last_anchor_price
    /\ b1.last_anchor_ms = b2.last_anchor_ms

\* max(ts - t, 1) for the call made and the anchor (a, t) it found
TripDt == MaxI(StageCall.ts_ms - unwrap(StageCall.before.last_anchor_ms), 1)

\* |px / a - 1| * 60000 / max(ts - t, 1) for the call made
TripChange ==
    FDiv(FMul(FAbs(FSub(FDiv(StageCall.px,
                             unwrap(StageCall.before.last_anchor_price)),
                        One)),
              F(60000, 1)),
         F(TripDt, 1))

\* C21: tripped(px, ts) returns false on a breaker with no anchor, which it
\* then sets to (px, ts); with an anchor (a, t) it returns true if and only
\* if |px / a - 1| * 60000 / max(ts - t, 1) > per_min_threshold
C21_TrippedIffOverThreshold ==
    Called("tripped") =>
        IF AnchorSet(StageCall.before)
        THEN StageCall.ret.result <=>
                 FGt(TripChange, StageCall.before.per_min_threshold)
        ELSE /\ ~StageCall.ret.result
             /\ AnchorIs(StageCall.ret.cb, StageCall.px, StageCall.ts_ms)

\* anchor (100, t0), then (110, t0 + 30 s): change 0.20 > 0.07, tripped
C21_Witness ==
    /\ Called("tripped")
    /\ AnchorIs(StageCall.before, F(100, 1), StageCall.ts_ms - 30000)
    /\ StageCall.px = F(110, 1)
    /\ StageCall.ret.result

\* C22: the anchor changes only when it is set by the first call and when
\* a call that does not trip finds dt_ms >= 10000, and then to (px, ts_ms);
\* a call that trips, or that does not with dt_ms < 10000, leaves the
\* anchor as it is
C22_AnchorFrame ==
    Called("tripped") =>
        IF ~AnchorSet(StageCall.before)
        THEN AnchorIs(StageCall.ret.cb, StageCall.px, StageCall.ts_ms)
        ELSE IF ~StageCall.ret.result /\ TripDt >= 10000
        THEN AnchorIs(StageCall.ret.cb, StageCall.px, StageCall.ts_ms)
        ELSE SameAnchor(StageCall.ret.cb, StageCall.before)

\* a call 2 s after the anchor at another price does not trip and leaves
\* the anchor where it was
C22_Witness ==
    /\ Called("tripped")
    /\ AnchorIs(StageCall.before, F(100, 1), StageCall.ts_ms - 2000)
    /\ StageCall.px = F(1001, 10)
    /\ ~StageCall.ret.result
    /\ SameAnchor(StageCall.ret.cb, StageCall.before)

\* the call of tick_built made: the previous price, the bounds
\* prev * (1 - s) and prev * (1 + s) for s = max(max_step_per_tick, 5e-4),
\* and the consensus price
ClampPrev == unwrap(StageCall.o.last_good_mark).price
ClampS == FMax(StageCall.o.cfg.max_step_per_tick, F(5, 10000))
ClampLo == FMul(ClampPrev, FSub(One, ClampS))
ClampHi == FMul(ClampPrev, FAdd(One, ClampS))
ConsensusPx == StageCall.built.tick.price

\* the post-clamp price as the step clamp defines it
ClampExpected ==
    IF ~is_some(StageCall.o.last_good_mark) THEN ConsensusPx
    ELSE IF FLe(ClampLo, ConsensusPx) /\ FLe(ConsensusPx, ClampHi)
    THEN ConsensusPx
    ELSE IF FLt(ConsensusPx, ClampLo) THEN ClampLo
    ELSE ClampHi

\* the breaker stage ran on the post-clamp price: the tick did not end
\* before it, and the breaker is as tripped leaves it for that price
BreakerRanOnClamped ==
    /\ StageCall.ret.label \in {"ok", "circuit_breaker", "cb_no_anchor"}
    /\ StageCall.ret.oracle.cb =
           tripped(StageCall.o.cb, StageCall.clamped.price,
                   StageCall.clamped.ts_ms).cb

MaxStale ==
    IF 3 * StageCall.o.cfg.cfd_tau_ms < 15000 THEN 15000
    ELSE IF 3 * StageCall.o.cfg.cfd_tau_ms > 120000 THEN 120000
    ELSE 3 * StageCall.o.cfg.cfd_tau_ms

\* the quote is at most MaxStale from the clock reading of the filter
WithinMaxStale(q) ==
    \/ 0 <= StageCall.now - q.ts_ms /\ StageCall.now - q.ts_ms <= MaxStale
    \/ 0 <= q.ts_ms - StageCall.now /\ q.ts_ms - StageCall.now <= MaxStale

BuildPs == prices_of(unwrap(build_call).quotes)
BuildMed == median(BuildPs)

\* v is the k-th smallest of the prices given (counting from 1)
KthSmallest(v, k) ==
    /\ Cardinality({i \in 1..Len(BuildPs) : FLt(BuildPs[i], v)}) < k
    /\ k <= Cardinality({i \in 1..Len(BuildPs) : FLe(BuildPs[i], v)})

\* C25 as stated: the median anchor of an even number of prices is the
\* lower of the two middle elements of the sorted prices, and the middle
\* element of an odd number
C25_LowerMedian ==
    is_some(build_call) =>
        IF Len(BuildPs) % 2 = 0
        THEN KthSmallest(BuildMed, Len(BuildPs) \div 2)
        ELSE KthSmallest(BuildMed, (Len(BuildPs) + 1) \div 2)

\* C25: the median anchor of an even number of prices is the upper of the
\* two middle elements of the sorted prices (index n/2 counting from 0),
\* not their mean when they differ; of an odd number, the middle element
C25_UpperMedian ==
    is_some(build_call) =>
        IF Len(BuildPs) % 2 = 0
        THEN /\ KthSmallest(BuildMed, (Len(BuildPs) \div 2) + 1)
             /\ \A i \in 1..Len(BuildPs) :
                    /\ KthSmallest(BuildPs[i], Len(BuildPs) \div 2)
                    /\ ~FEq(BuildPs[i], BuildMed)
                    => ~FEq(BuildMed,
                            FDiv(FAdd(BuildPs[i], BuildMed), F(2, 1)))
        ELSE KthSmallest(BuildMed, (Len(BuildPs) + 1) \div 2)

\* the quotes 100 and 101: the anchor is 101
C25_Witness ==
    /\ is_some(build_call)
    /\ Len(BuildPs) = 2
    /\ FEq(BuildPs[1], F(100, 1))
    /\ FEq(BuildPs[2], F(101, 1))
    /\ FEq(BuildMed, F(101, 1))
    /\ unwrap(build_call).ret.ok

\* the median of the distances of the prices given from their anchor
MedianDev ==
    median([i \in 1..Len(BuildPs) |-> FAbs(FSub(BuildPs[i], BuildMed))])

\* the quotes given whose price is at most mad_k * md from the anchor
WithinBand(md) ==
    SelectSeq(unwrap(build_call).quotes,
              LAMBDA q : FLe(FAbs(FSub(q.price, BuildMed)),
                             FMul(unwrap(build_call).builder.mad_k, md)))

\* the quotes within mad_k * md are the ones the build used, and its
\* statistics count them: n_used the kept, n_dropped the others, n_fresh
\* all the quotes given
RejectionWith(md) ==
    /\ KeptOf(unwrap(build_call).builder, unwrap(build_call).quotes) =
           WithinBand(md)
    /\ unwrap(build_call).ret.ok =>
           /\ unwrap(build_call).ret.stats.n_used = Len(WithinBand(md))
           /\ unwrap(build_call).ret.stats.n_dropped =
                  Len(BuildPs) - Len(WithinBand(md))
           /\ unwrap(build_call).ret.stats.n_fresh = Len(BuildPs)
           /\ unwrap(build_call).ret.stats.n_used
                  + unwrap(build_call).ret.stats.n_dropped =
                  unwrap(build_call).ret.stats.n_fresh

\* C26 as stated: a quote is used if and only if |price - med| <=
\* mad_k * mad for mad = max(1.4826 * median(|price_i - med|), 1e-9), and
\* n_used, n_dropped and n_fresh count the kept, the rejected and all
C26_MadRejection ==
    is_some(build_call) =>
        RejectionWith(FMax(FMul(F(14826, 10000), MedianDev),
                           F(1, 1000000000)))

\* C26: the same with mad = 1.4826 * max(median(|price_i - med|), 1e-9)
C26_MadRejectionScaledFloor ==
    is_some(build_call) =>
        RejectionWith(FMul(F(14826, 10000),
                           FMax(MedianDev, F(1, 1000000000))))

\* three quotes at 100, 101 and 150: the third is rejected
C26_Witness ==
    /\ is_some(build_call)
    /\ Len(BuildPs) = 3
    /\ FEq(BuildPs[1], F(100, 1))
    /\ FEq(BuildPs[2], F(101, 1))
    /\ FEq(BuildPs[3], F(150, 1))
    /\ FGe(unwrap(build_call).builder.mad_k, Zero)
    /\ unwrap(build_call).ret.ok
    /\ unwrap(build_call).ret.stats.n_used = 2
    /\ unwrap(build_call).ret.stats.n_dropped = 1

\* kappa * (mark.price - ref.price) / ref.price for the call of compute made
RawRate ==
    FMul(StageCall.engine.kappa,
         FDiv(FSub(StageCall.mark.price, StageCall.index_ref.price),
              StageCall.index_ref.price))

\* C27: compute returns the rate kappa * (mark.price - ref.price) /
\* ref.price when that lies in [-cap, +cap], +cap when it is above and
\* -cap when it is below, under the symbol mark.symbol followed by
\* "-PERP", with the mark's ts_ms and the engine's interval_sec
C27_FundingRate ==
    Called("compute") =>
        /\ FLe(FNeg(StageCall.engine.cap), RawRate)
              /\ FLe(RawRate, StageCall.engine.cap)
              => FEq(StageCall.ret.rate, RawRate)
        /\ FGt(RawRate, StageCall.engine.cap)
              => FEq(StageCall.ret.rate, StageCall.engine.cap)
        /\ FLt(RawRate, FNeg(StageCall.engine.cap))
              => FEq(StageCall.ret.rate, FNeg(StageCall.engine.cap))
        /\ StageCall.ret.symbol = StageCall.mark.symbol \o "-PERP"
        /\ StageCall.ret.ts_ms = StageCall.mark.ts_ms
        /\ StageCall.ret.interval_sec = StageCall.engine.interval_sec

\* mark 100, reference 99, kappa 0.5, cap 0.004: the raw rate 0.00505 is
\* clamped to 0.004
C27_Witness ==
    /\ Called("compute")
    /\ FEq(StageCall.mark.price, F(100, 1))
    /\ FEq(StageCall.index_ref.price, F(99, 1))
    /\ FEq(StageCall.engine.kappa, F(1, 2))
    /\ FEq(StageCall.engine.cap, F(4, 1000))
    /\ FEq(RawRate, F(50, 9900))
    /\ FEq(StageCall.ret.rate, F(4, 1000))
    /\ StageCall.ret.symbol = "LH-PERP"

\* C28: the trading-hours gate is open whatever hours_guard is, and no tick
\* ends at the hours check
C28_HoursGateOpen ==
    /\ hours_ok(cfg)
    /\ label # "hours"

\* a tick published under hours_guard = "cme"
C28_Witness ==
    /\ cfg.hours_guard = "cme"
    /\ ticks > 0
    /\ label = "ok"
    /\ Len(calls) = 2

\* C29: the dispersion check is a soft flag: the tick run with another
\* cfd_dispersion_bps_max on the same oracle and consensus publishes the
\* same mark and funding update, takes the same path and leaves the same
\* last good mark, EMA and breaker; and a spread above the maximum does not
\* keep the tick from publishing
C29_DispersionSoft ==
    Called("tick_built") =>
        /\ StageCall.ret.calls = StageCall.other.calls
        /\ StageCall.ret.label = StageCall.other.label
        /\ StageCall.ret.oracle.last_good_mark =
               StageCall.other.oracle.last_good_mark
        /\ StageCall.ret.oracle.funding_ref_ema =
               StageCall.other.oracle.funding_ref_ema
        /\ StageCall.ret.oracle.cb = StageCall.other.oracle.cb
        /\ StageCall.built.stats.spread_bps
               > StageCall.o.cfg.cfd_dispersion_bps_max
              => /\ StageCall.ret.wide_dispersion
                 /\ Len(StageCall.ret.calls) = 2

\* a spread of 36 bps against a maximum of 35, and against one of 80: the
\* tick is flagged under the first only and publishes under both
C29_Witness ==
    /\ Called("tick_built")
    /\ StageCall.built.stats.spread_bps = 36
    /\ StageCall.o.cfg.cfd_dispersion_bps_max = 35
    /\ StageCall.other_max = 80
    /\ StageCall.ret.wide_dispersion
    /\ ~StageCall.other.wide_dispersion
    /\ StageCall.ret.label = "ok"
    /\ Len(StageCall.ret.calls) = 2

\* C30: in every reachable oracle state the breaker's anchor (price and
\* time) is set exactly when last_good_mark is set, and no tick ends in the
\* branch "breaker tripped with no prior good mark"
C30_AnchorIffLastGood ==
    /\ is_some(cb.last_anchor_price) <=> is_some(last_good_mark)
    /\ is_some(cb.last_anchor_ms) <=> is_some(last_good_mark)
    /\ label # "cb_no_anchor"

\* the breaker has tripped on a later tick, anchor and last good mark both
\* being set
C30_Witness ==
    /\ ticks > 1
    /\ label = "circuit_breaker"
    /\ is_some(cb.last_anchor_price)
    /\ is_some(cb.last_anchor_ms)
    /\ is_some(last_good_mark)

\* C31 (as stated): in every reachable oracle state with a last good mark
\* the anchor time is at most the mark's ts_ms and less than 10 s before it
C31_AnchorWithinTenSeconds ==
    is_some(last_good_mark) =>
        /\ is_some(cb.last_anchor_ms)
        /\ 0 <= unwrap(last_good_mark).ts_ms - unwrap(cb.last_anchor_ms)
        /\ unwrap(last_good_mark).ts_ms - unwrap(cb.last_anchor_ms) < 10000

\* the tick reads the wall clock no earlier than the ts_ms of the last good
\* mark it starts with
ClockNotSetBack ==
    is_some(last_good_mark) => clock' >= unwrap(last_good_mark).ts_ms

\* the anchor after the tick is the anchor before it, or the price and
\* ts_ms of the mark the tick accepted
AnchorFromAccepted ==
    \/ cb' = cb
    \/ /\ label' = "ok"
       /\ is_some(last_good_mark')
       /\ cb'.last_anchor_price = Some(unwrap(last_good_mark').price)
       /\ cb'.last_anchor_ms = Some(unwrap(last_good_mark').ts_ms)

\* C31 (amended): a tick that starts with the anchor at most 10 s before
\* the last good mark and reads the wall clock no earlier than that mark's
\* ts_ms ends so as well; and every tick leaves the anchor alone or moves it
\* to the price and ts_ms of the mark it accepted
C31_AnchorWithinTenSecondsForward ==
    [][/\ (C31_AnchorWithinTenSeconds /\ ClockNotSetBack)
            => C31_AnchorWithinTenSeconds'
       /\ AnchorFromAccepted]_vars

\* a mark accepted 6 s after the anchor was set, the anchor staying behind
C31_Witness ==
    /\ ticks > 1
    /\ label = "ok"
    /\ is_some(last_good_mark)
    /\ unwrap(last_good_mark).ts_ms - unwrap(cb.last_anchor_ms) = 6000

\* the call of build recorded has a quote at the median among the kept ones
MedianQuoteKept ==
    \E i \in 1..Len(StageCall.kept) : StageCall.kept[i].price = StageCall.med

\* the kept quotes recorded are those build used
KeptAsUsed ==
    IF Len(StageCall.kept) = 0 THEN ~StageCall.ret.ok
    ELSE StageCall.ret.ok => StageCall.ret.stats.n_used = Len(StageCall.kept)

NothingPublishedYet == ~is_some(last_published) /\ ~Published

\* C33: the first funding update an oracle publishes has rate exactly 0
C33_FirstFundingZero ==
    [][(NothingPublishedYet /\ Published') => Funding'.rate = Zero]_vars

\* the EMA value after an update with x: x itself when it held none, else
\* alpha * x + (1 - alpha) * v
EmaAfter(ema, x) ==
    IF is_some(ema.value)
    THEN FAdd(FMul(ema.alpha, x), FMul(FSub(One, ema.alpha), unwrap(ema.value)))
    ELSE x

\* C34: a tick on which the breaker trips re-publishes the last good mark,
\* updates the EMA with that mark's price and publishes a funding update
\* with that mark's ts_ms; every tick that publishes a mark updates the EMA
\* with its price, and no other tick changes the EMA
C34_FrozenTickUpdatesEma ==
    [][/\ label' = "circuit_breaker" =>
             /\ is_some(last_good_mark)
             /\ Len(calls') = 2
             /\ calls'[1].op = "publish_index"
             /\ calls'[1].tick = unwrap(last_good_mark)
             /\ calls'[2].op = "publish_funding"
             /\ calls'[2].fu.ts_ms = unwrap(last_good_mark).ts_ms
             /\ funding_ref_ema'.value =
                    Some(EmaAfter(funding_ref_ema,
                                  unwrap(last_good_mark).price))
       /\ Published' =>
             funding_ref_ema'.value =
                 Some(EmaAfter(funding_ref_ema, Mark'.price))
       /\ ~Published' => funding_ref_ema' = funding_ref_ema]_vars

\* a frozen tick: the mark re-published is older than the tick, the funding
\* update carries its ts_ms, and the EMA, fed the same price again, is a
\* finite value
C34_Witness ==
    /\ label = "circuit_breaker"
    /\ Published
    /\ Mark.ts_ms < clock
    /\ Funding.ts_ms = Mark.ts_ms
    /\ is_finite(Mark.price)
    /\ is_finite(unwrap(funding_ref_ema.value))
    /\ is_finite(Funding.rate)

\* C35: with mode_cfd_only false every tick leaves tick_once past the CFD
\* branch (where the quotes are collected), makes no publisher call and
\* leaves last_good_mark, the EMA and the breaker as they were: the daemon
\* never publishes a mark
C35_ModeOffPublishesNothing ==
    [][~cfg.mode_cfd_only =>
          /\ label' = "none"
          /\ calls' = <<>>
          /\ ~Published'
          /\ ~is_some(last_published')
          /\ last_good_mark' = last_good_mark
          /\ funding_ref_ema' = funding_ref_ema
          /\ cb' = cb]_vars

\* the daemon started on OracleConfig::default() has ticked twice
C35_Witness ==
    /\ cfg = DefaultConfig
    /\ ~cfg.mode_cfd_only
    /\ ticks >= 2
    /\ label = "none"
    /\ calls = <<>>
    /\ ~is_some(last_good_mark)
    /\ ~is_some(funding_ref_ema.value)
    /\ ~is_some(cb.last_anchor_price)

\* the state after a call of build on the index
IndexCalled == is_some(cfd_index) /\ unwrap(cfd_index).n > 0

\* the call c returned one of the errors errs
RejectedAs(c, errs) == ~unwrap(c.ret).ok /\ unwrap(c.ret).err \in errs

\* the tick of the call c was no older than max_staleness_ms and not ahead
\* of the clock
NotStale(c) ==
    /\ c.now - unwrap(c.tick).ts_ms >= 0
    /\ c.now - unwrap(c.tick).ts_ms <= unwrap(c.before).max_staleness_ms

\* the price of the tick of the call c is further from last_px than jump_pct
\* of it
LevelShift(c) ==
    /\ is_some(unwrap(c.before).last_px)
    /\ FGt(FAbs(FSub(unwrap(c.tick).price, unwrap(unwrap(c.before).last_px))),
           FMul(unwrap(c.before).jump_pct,
                FAbs(unwrap(unwrap(c.before).last_px))))

RejectionKeepsIndex(c) ==
    RejectedAs(c, {"Stale", "Jump"}) =>
        /\ c.self.buf = unwrap(c.before).buf
        /\ c.self.last_px = unwrap(c.before).last_px

ShiftRejected(c) ==
    LevelShift(c) =>
        /\ RejectedAs(c, {"Stale", "Jump"})
        /\ NotStale(c) => RejectedAs(c, {"Jump"})

\* C36: a build that returns Stale or Jump leaves buf and last_px as they
\* were; a tick whose price differs from last_px by more than jump_pct of
\* it is rejected, as Jump when it is not stale; and once a price was
\* rejected as Jump, every later tick at that price that is not stale is
\* rejected as Jump again, the index staying as it was.
C36_JumpNeverRecovers ==
    [][(is_some(cfd_index') /\ unwrap(cfd_index').n > 0) =>
          /\ RejectionKeepsIndex(unwrap(cfd_index'))
          /\ ShiftRejected(unwrap(cfd_index'))
          /\ (/\ IndexCalled
              /\ RejectedAs(unwrap(cfd_index), {"Jump"})
              /\ unwrap(cfd_index').n = unwrap(cfd_index).n + 1
              /\ unwrap(unwrap(cfd_index').tick).price
                     = unwrap(unwrap(cfd_index).tick).price
              /\ NotStale(unwrap(cfd_index')))
             => /\ RejectedAs(unwrap(cfd_index'), {"Jump"})
                /\ unwrap(cfd_index').self = unwrap(cfd_index).self]_vars

C36_Witness ==
    /\ IndexCalled
    /\ unwrap(cfd_index).n = 3
    /\ unwrap(cfd_index).jumps = 2
    /\ unwrap(unwrap(cfd_index).tick).price = F(110, 1)
    /\ unwrap(cfd_index).self.last_px = Some(F(100, 1))
    /\ Len(unwrap(cfd_index).self.buf) = 1

====
